---------------------------- MODULE Spec2Model ----------------------------
(***************************************************************************)
(* A model of PensionFileProcessor (src/process_pensions.py): a document   *)
(* is loaded into a tree, accounts are located in it, and one record is    *)
(* extracted per account.                                                  *)
(*                                                                         *)
(* A document is a sequence of nodes in document order; node 1 is the root *)
(* and every other node names its parent by index.  A text is a sequence   *)
(* of one-character strings; the empty sequence stands for both a missing  *)
(* text (None) and the empty string, which the code never distinguishes.   *)
(* Amounts are fixed-point integers in hundredths (Scale).  An optional    *)
(* value is a sequence of length 0 (None) or 1.                            *)
(***************************************************************************)
EXTENDS Integers, Sequences, FiniteSets, TLC

VARIABLES root, result, pc, accounts, results, files

vars == <<root, result, pc, accounts, results, files>>

\* ------------------------------------------------------------------ bounds

\* Number of decimal digits kept by the fixed-point representation.
FracDigits == 2

\* Largest number of nodes of a document of the account-locator family.
MaxLocateNodes == 4

\* Largest number of summary nodes per balance tier in the balance family.
MaxTierNodes == 2

\* Largest number of per-period nodes in the contribution family.
MaxPeriodNodes == 2

\* Severance fields per account in the documents of the severance family.
MaxSeveranceNodes == 2

\* Employer-name fields of the first account in the employer family.
MaxNameNodes == 3

\* Accounts per document in the family of the account loop.
MaxStepAccounts == 3

\* Files of a directory given to process_directory.
MaxFiles == 3

\* Accounts per document in the sibling family.
MaxSiblingAccounts == 2

\* Balance-like fields per account in the generic-balance family.
MaxGenericNodes == 2

\* ------------------------------------------------------- program constants

RECURSIVE Pow10(_)
Pow10(n) == IF n = 0 THEN 1 ELSE 10 * Pow10(n - 1)

Scale == Pow10(FracDigits)

\* BALANCE_TOLERANCE = 0.5, in fixed point.
BALANCE_TOLERANCE == Scale \div 2

ACCOUNT_ELEMENTS ==
    << "HeshbonOPolisa", "Heshbon", "Account", "Policy", "Polisa",
       "PensionAccount", "PensionPolicy", "KupatGemel", "BituachMenahalim",
       "KerenPensia" >>

ACCOUNT_LIKE_CHILDREN ==
    { "MISPAR-POLISA-O-HESHBON", "MISPAR-HESHBON", "MISPAR-POLISA",
      "SHEM-YATZRAN", "YATZRAN", "SHEM-TOCHNIT", "TOCHNIT" }

ROOT_FALLBACK_TAGS ==
    << "MISPAR-POLISA-O-HESHBON", "MISPAR-HESHBON", "MISPAR-POLISA" >>

\* ------------------------------------------------------------------- texts

None == << >>
Some(v) == << v >>

Digits == { "0", "1", "2", "3", "4", "5", "6", "7", "8", "9" }

DigitVal ==
    [ c \in Digits |->
        CASE c = "0" -> 0 [] c = "1" -> 1 [] c = "2" -> 2 [] c = "3" -> 3
          [] c = "4" -> 4 [] c = "5" -> 5 [] c = "6" -> 6 [] c = "7" -> 7
          [] c = "8" -> 8 [] c = "9" -> 9 ]

IsSpace(c) == c = " "

\* str.strip()
RECURSIVE LStrip(_)
LStrip(s) == IF s # << >> /\ IsSpace(Head(s)) THEN LStrip(Tail(s)) ELSE s

RECURSIVE RStrip(_)
RStrip(s) ==
    IF s # << >> /\ IsSpace(s[Len(s)]) THEN RStrip(SubSeq(s, 1, Len(s) - 1))
    ELSE s

Strip(s) == RStrip(LStrip(s))

\* str.replace(c, '')
RemoveChar(s, c) == SelectSeq(s, LAMBDA x : x # c)

AllDigits(s) == \A i \in 1..Len(s) : s[i] \in Digits

RECURSIVE DigitsValue(_)
DigitsValue(s) ==
    IF s = << >> THEN 0
    ELSE 10 * DigitsValue(SubSeq(s, 1, Len(s) - 1)) + DigitVal[s[Len(s)]]

\* The value of a fraction part, in hundredths; digits beyond FracDigits are
\* outside the fixed-point range and the texts of the model never carry them.
FracValue(s) ==
    LET padded == s \o [ i \in 1..FracDigits |-> "0" ]
    IN  DigitsValue(SubSeq(padded, 1, FracDigits))

DotPos(s) ==
    LET ps == { i \in 1..Len(s) : s[i] = "." }
    IN  IF ps = {} THEN 0 ELSE CHOOSE i \in ps : \A j \in ps : i <= j

\* An unsigned decimal literal: digits, optionally a point, at least one digit.
UnsignedFloat(s) ==
    LET d == DotPos(s)
        ip == IF d = 0 THEN s ELSE SubSeq(s, 1, d - 1)
        fp == IF d = 0 THEN << >> ELSE SubSeq(s, d + 1, Len(s))
    IN  IF AllDigits(ip) /\ AllDigits(fp) /\ Len(ip) + Len(fp) > 0
        THEN Some(DigitsValue(ip) * Scale + FracValue(fp))
        ELSE None

\* float(s): surrounding blanks and a sign are accepted; anything that is not
\* a decimal literal raises ValueError (None here).  Exponents, "inf", "nan"
\* and digit-group underscores are outside the alphabet of the model's texts.
PyFloat(s0) ==
    LET s == Strip(s0)
    IN  IF s = << >> THEN None
        ELSE IF Head(s) = "-"
             THEN LET u == UnsignedFloat(Tail(s))
                  IN  IF u = None THEN None ELSE Some(0 - u[1])
        ELSE IF Head(s) = "+" THEN UnsignedFloat(Tail(s))
        ELSE UnsignedFloat(s)

\* ------------------------------------------------------------------- trees

Node(tag, text, parent) == [ tag |-> tag, text |-> text, parent |-> parent ]

\* The sequence of the elements of a set of indices, ascending.
RECURSIVE SortedSeq(_)
SortedSeq(S) ==
    IF S = {} THEN << >>
    ELSE LET m == CHOOSE x \in S : \A y \in S : x <= y
         IN  << m >> \o SortedSeq(S \ { m })

RECURSIVE IsAncestor(_, _, _)
IsAncestor(doc, a, n) ==
    IF n <= 1 THEN FALSE
    ELSE doc[n].parent = a \/ IsAncestor(doc, a, doc[n].parent)

\* elem.iter(): the element and its descendants, in document order.
Iter(doc, n) ==
    SortedSeq({ n } \cup { j \in 1..Len(doc) : IsAncestor(doc, n, j) })

\* elem.findall('.//tag'): the proper descendants carrying the tag.
FindAllDesc(doc, n, tag) ==
    SortedSeq({ j \in 1..Len(doc) : doc[j].tag = tag /\ IsAncestor(doc, n, j) })

RECURSIVE Flatten(_)
Flatten(ss) == IF ss = << >> THEN << >> ELSE Head(ss) \o Flatten(Tail(ss))

\* elem.findall('.//a//b'): for every a found, in order, its b descendants;
\* ElementPath does not merge the results of nested a's.
FindAllDesc2(doc, n, a, b) ==
    LET as == FindAllDesc(doc, n, a)
    IN  Flatten([ i \in 1..Len(as) |-> FindAllDesc(doc, as[i], b) ])

\* elem.find(tag): the first immediate child carrying the tag.
Find(doc, n, tag) ==
    LET cs == { j \in 1..Len(doc) : doc[j].parent = n /\ doc[j].tag = tag }
    IN  IF cs = {} THEN None ELSE Some(CHOOSE j \in cs : \A k \in cs : j <= k)

\* elem.find('.//tag'): the first proper descendant carrying the tag.
FindDesc(doc, n, tag) ==
    LET ds == FindAllDesc(doc, n, tag)
    IN  IF ds = << >> THEN None ELSE Some(ds[1])

_get_text(doc, n, tag) ==
    LET c == Find(doc, n, tag)
    IN  IF c # None /\ doc[c[1]].text # << >> THEN Strip(doc[c[1]].text)
        ELSE << >>

_get_float(doc, n, tag) ==
    LET text == _get_text(doc, n, tag)
    IN  IF text # << >> THEN PyFloat(RemoveChar(text, ",")) ELSE None

\* --------------------------------------------------------- account locator

\* Tier 1 of the locator: every element found under a known container name,
\* name by name.
ContainerNodes(doc) ==
    Flatten([ k \in 1..Len(ACCOUNT_ELEMENTS) |->
                FindAllDesc(doc, 1, ACCOUNT_ELEMENTS[k]) ])

has_account_like_children(doc, n) ==
    \E j \in 1..Len(doc) :
        doc[j].parent = n /\ doc[j].tag \in ACCOUNT_LIKE_CHILDREN

\* Tier 2: every element, the root included, with an account-like child.
StructuralNodes(doc) ==
    SelectSeq(Iter(doc, 1), LAMBDA n : has_account_like_children(doc, n))

\* The condition of tier 3: an account-number tag below the root.
RootFallbackCondition(doc) ==
    \E k \in 1..Len(ROOT_FALLBACK_TAGS) :
        FindDesc(doc, 1, ROOT_FALLBACK_TAGS[k]) # None

\* A variant that adds the structural matches to the container matches.
LocateAccountsMerged(doc) ==
    LET nodes == ContainerNodes(doc) \o StructuralNodes(doc)
    IN  IF nodes # << >> THEN [ nodes |-> nodes, tier |-> 1 ]
        ELSE IF RootFallbackCondition(doc) THEN [ nodes |-> << 1 >>, tier |-> 3 ]
        ELSE [ nodes |-> << >>, tier |-> 0 ]

\* account_nodes of _extract_data, with the tier that produced them (0: none).
LocateAccounts(doc) ==
    LET t1 == ContainerNodes(doc)
        t2 == StructuralNodes(doc)
    IN  IF t1 # << >> THEN [ nodes |-> t1, tier |-> 1 ]
        ELSE IF t2 # << >> THEN [ nodes |-> t2, tier |-> 2 ]
        ELSE IF RootFallbackCondition(doc) THEN [ nodes |-> << 1 >>, tier |-> 3 ]
        ELSE [ nodes |-> << >>, tier |-> 0 ]

\* -------------------------------------------------------- balance resolver

\* _sum_fields over the nodes a path matched: the first parseable candidate
\* field of each node is added; nodes without one are not counted.
FirstFloat(doc, n, fields) ==
    LET hits == { k \in 1..Len(fields) : _get_float(doc, n, fields[k]) # None }
    IN  IF hits = {} THEN None
        ELSE _get_float(doc, n, fields[CHOOSE k \in hits : \A h \in hits : k <= h])

RECURSIVE SumNodes(_, _, _)
SumNodes(doc, nodes, fields) ==
    IF nodes = << >> THEN [ total |-> 0, count |-> 0 ]
    ELSE LET rest == SumNodes(doc, Tail(nodes), fields)
             value == FirstFloat(doc, Head(nodes), fields)
         IN  IF value # None
             THEN [ total |-> rest.total + value[1], count |-> rest.count + 1 ]
             ELSE rest

_sum_fields(doc, n, path, fields) ==
    SumNodes(doc,
             IF Len(path) = 2 THEN FindAllDesc2(doc, n, path[1], path[2])
             ELSE FindAllDesc(doc, n, path[1]),
             fields)

TIER_PATHS ==
    << << "BlockItrot", "PerutYitrot" >>,
       << "PerutMasluleiHashkaa" >>,
       << "PerutYitrotLesofShanaKodemet" >> >>

TIER_FIELDS ==
    << << "TOTAL-CHISACHON-MTZBR", "TOTAL-ERKEI-PIDION" >>,
       << "SCHUM-TZVIRA-BAMASLUL", "TOTAL-CHISACHON-MTZBR" >>,
       << "YITRAT-SOF-SHANA", "TOTAL-CHISACHON-MTZBR" >> >>

TierSum(doc, n, t) == _sum_fields(doc, n, TIER_PATHS[t], TIER_FIELDS[t])

GENERIC_FIELDS ==
    << "SCHUM-TZVIRA-BAMASLUL", "YITRAT-KASPEY-TAGMULIM",
       "TOTAL-CHISACHON-MTZBR", "TOTAL-ERKEI-PIDION", "SCHUM-HON-EFSHAR",
       "SCHUM-CHISACHON", "SCHUM-TAGMULIM", "SCHUM-PITURIM",
       "ERECH-PIDION-PITZUIM-LEKITZBA-MAAVIDIM-KODMIM",
       "ERECH-PIDION-PITZUIM-MAASIK-NOCHECHI" >>

\* The tags of the model's documents whose upper-cased name contains SCHUM,
\* YITRAT or ERECH.
WEIGHTED_TAGS ==
    { "SCHUM-TZVIRA-BAMASLUL", "YITRAT-KASPEY-TAGMULIM", "SCHUM-HON-EFSHAR",
      "SCHUM-CHISACHON", "SCHUM-TAGMULIM", "SCHUM-PITURIM",
      "ERECH-PIDION-PITZUIM-LEKITZBA-MAAVIDIM-KODMIM",
      "ERECH-PIDION-PITZUIM-MAASIK-NOCHECHI", "YITRAT-SOF-SHANA",
      "YITRAT-PITZUIM", "YITRAT-PITZUIM-MAASIK-NOCHECHI",
      "YITRAT-PITZUIM-LEKITZBA-MAAVIDIM-KODMIM",
      "YITRAT-PITZUIM-LELO-HITCHASHBENOT", "SCHUM-HAFKADA-SHESHULAM" }

Abs(x) == IF x < 0 THEN 0 - x ELSE x

\* Whether a tier of 1..3 returns: it summed a node and its total is not
\* below minus the tolerance.
TierReturns(s) ==
    s.count > 0 /\ (s.total > BALANCE_TOLERANCE \/ Abs(s.total) <= BALANCE_TOLERANCE)

\* A variant that ranks the candidates by value alone.
TopByValue(cs) == CHOOSE c \in cs : \A d \in cs : c[2] >= d[2]

\* A variant that returns a near-zero total as it is.
TierValueRaw(s) == s.total

TierValue(s) == IF s.total > BALANCE_TOLERANCE THEN s.total ELSE 0

\* A variant of tier 4 that accepts any generic field that parses.
GenericHitsAnySign(doc, n) ==
    { k \in 1..Len(GENERIC_FIELDS) : _get_float(doc, n, GENERIC_FIELDS[k]) # None }

\* Tier 4: the first strictly positive generic field, a direct child.
GenericHits(doc, n) ==
    { k \in 1..Len(GENERIC_FIELDS) :
        LET v == _get_float(doc, n, GENERIC_FIELDS[k])
        IN  v # None /\ v[1] > 0 }

\* Tier 5: the (weight, value) candidates over the account and its
\* descendants: texts with a digit that parse to a positive number.
PotentialBalances(doc, n) ==
    LET it == Iter(doc, n)
        cand == { j \in { it[i] : i \in 1..Len(it) } :
                    /\ \E i \in 1..Len(doc[j].text) : doc[j].text[i] \in Digits
                    /\ LET v == PyFloat(RemoveChar(doc[j].text, ","))
                       IN  v # None /\ v[1] > 0 }
    IN  { << IF doc[j].tag \in WEIGHTED_TAGS THEN 2 ELSE 1,
             PyFloat(RemoveChar(doc[j].text, ","))[1] >> : j \in cand }

\* potential_balances.sort(key=(-weight, -value))[0]
TopCandidate(cs) ==
    CHOOSE c \in cs :
        \A d \in cs : c[1] > d[1] \/ (c[1] = d[1] /\ c[2] >= d[2])

\* _find_balance: the balance and the tier whose return statement produced it
\* (6: the final "return 0.0").
RECURSIVE FindBalanceFrom(_, _, _)
FindBalanceFrom(doc, n, t) ==
    IF t <= 3
    THEN LET s == TierSum(doc, n, t)
         IN  IF TierReturns(s) THEN [ value |-> TierValue(s), tier |-> t ]
             ELSE FindBalanceFrom(doc, n, t + 1)
    ELSE LET hits == GenericHits(doc, n)
             cands == PotentialBalances(doc, n)
         IN  IF hits # {}
             THEN [ value |-> _get_float(doc, n,
                                 GENERIC_FIELDS[CHOOSE k \in hits :
                                                  \A h \in hits : k <= h])[1],
                    tier |-> 4 ]
             ELSE IF cands # {}
             THEN [ value |-> TopCandidate(cands)[2], tier |-> 5 ]
             ELSE [ value |-> 0, tier |-> 6 ]

_find_balance(doc, n) == FindBalanceFrom(doc, n, 1)

\* ---------------------------------------------------- component classifier

ROLES == { "employee", "employer" }

PERIODS == { "before_2000", "after_2000", "after_2008_non_paying" }

\* The keys of TAGMUL_PERIOD_COLUMNS.
TAGMUL_KEYS == ROLES \X PERIODS

\* TAGMUL_PERIOD_COLUMNS, the Hebrew column titles transliterated.
TAGMUL_PERIOD_COLUMNS ==
    [ key \in TAGMUL_KEYS |->
        CASE key = << "employee", "before_2000" >> -> "tagmulei oved ad 2000"
          [] key = << "employee", "after_2000" >> -> "tagmulei oved acharei 2000"
          [] key = << "employee", "after_2008_non_paying" >> ->
                 "tagmulei oved acharei 2008 (kitzba lo meshalemet)"
          [] key = << "employer", "before_2000" >> -> "tagmulei maavid ad 2000"
          [] key = << "employer", "after_2000" >> -> "tagmulei maavid acharei 2000"
          [] key = << "employer", "after_2008_non_paying" >> ->
                 "tagmulei maavid acharei 2008 (kitzba lo meshalemet)" ]

\* TECHULAT_CODE_PERIOD.get(code)
TECHULAT_CODE_PERIOD(code) ==
    CASE code = << "1" >> -> Some("before_2000")
      [] code = << "2" >> -> Some("after_2000")
      [] code = << "7" >> -> Some("after_2008_non_paying")
      [] code = << "9" >> -> Some("after_2008_non_paying")
      [] code = << "1", "3" >> -> Some("after_2008_non_paying")
      [] OTHER -> None

\* TAGMUL_ROLE_BY_REKIV.get(code)
TAGMUL_ROLE_BY_REKIV(code) ==
    CASE code = << "2" >> -> Some("employee")
      [] code = << "3" >> -> Some("employer")
      [] code = << "8" >> -> Some("employee")
      [] code = << "9" >> -> Some("employer")
      [] OTHER -> None

EMPLOYEE_SUG_CODES == { << "2" >>, << "4" >>, << "8" >>, << "1", "0" >> }

EMPLOYER_SUG_CODES == { << "3" >>, << "7" >>, << "9" >>, << "1", "1" >> }

\* The state of the bucketing loops: totals_by_key and has_period_data.
EmptyBuckets ==
    [ totals |-> [ key \in TAGMUL_KEYS |-> 0 ],
      has |-> [ r \in ROLES |-> FALSE ] ]

\* A variant that books a node with an unmapped role code to the employee.
PrimaryStepDefaulting(doc, b, period) ==
    LET techulat == _get_text(doc, period, "KOD-TECHULAT-SHICHVA")
        amount == _get_float(doc, period, "SACH-ITRA-LESHICHVA-BESHACH")
        found == TAGMUL_ROLE_BY_REKIV(_get_text(doc, period, "REKIV-ITRA-LETKUFA"))
        role == IF found = None THEN "employee" ELSE found[1]
        period_key == TECHULAT_CODE_PERIOD(techulat)
    IN  IF amount = None \/ period_key = None THEN b
        ELSE [ totals |-> [ b.totals EXCEPT ![<< role, period_key[1] >>] =
                                               @ + amount[1] ],
               has |-> [ b.has EXCEPT ![role] = TRUE ] ]

\* One iteration of the primary loop, on a per-period node.
PrimaryStep(doc, b, period) ==
    LET rekiv == _get_text(doc, period, "REKIV-ITRA-LETKUFA")
        techulat == _get_text(doc, period, "KOD-TECHULAT-SHICHVA")
        amount == _get_float(doc, period, "SACH-ITRA-LESHICHVA-BESHACH")
        role == TAGMUL_ROLE_BY_REKIV(rekiv)
        period_key == TECHULAT_CODE_PERIOD(techulat)
    IN  IF amount = None \/ role = None \/ period_key = None THEN b
        ELSE [ totals |-> [ b.totals EXCEPT ![<< role[1], period_key[1] >>] =
                                               @ + amount[1] ],
               has |-> [ b.has EXCEPT ![role[1]] = TRUE ] ]

RECURSIVE PrimaryLoop(_, _, _)
PrimaryLoop(doc, b, nodes) ==
    IF nodes = << >> THEN b
    ELSE PrimaryLoop(doc, PrimaryStep(doc, b, Head(nodes)), Tail(nodes))

PrimaryPass(doc, n) ==
    PrimaryLoop(doc, EmptyBuckets,
                FindAllDesc2(doc, n, "BlockItrot", "PerutYitraLeTkufa"))

\* A variant that books a per-track amount whether or not the role already
\* has period data.
SecondaryStepAnyRole(doc, b, yitrot) ==
    LET sug == _get_text(doc, yitrot, "KOD-SUG-HAFRASHA")
        amount == _get_float(doc, yitrot, "TOTAL-CHISACHON-MTZBR")
        role == IF sug \in EMPLOYEE_SUG_CODES THEN Some("employee")
                ELSE IF sug \in EMPLOYER_SUG_CODES THEN Some("employer")
                ELSE None
    IN  IF amount = None \/ sug = << >> \/ role = None THEN b
        ELSE [ b EXCEPT !.totals[<< role[1], "after_2000" >>] = @ + amount[1] ]

\* One iteration of the secondary loop, on a per-track node.
SecondaryStep(doc, b, yitrot) ==
    LET sug == _get_text(doc, yitrot, "KOD-SUG-HAFRASHA")
        amount == _get_float(doc, yitrot, "TOTAL-CHISACHON-MTZBR")
        role == IF ~b.has["employee"] /\ sug \in EMPLOYEE_SUG_CODES
                THEN Some("employee")
                ELSE IF ~b.has["employer"] /\ sug \in EMPLOYER_SUG_CODES
                THEN Some("employer")
                ELSE None
    IN  IF amount = None \/ sug = << >> \/ role = None THEN b
        ELSE [ b EXCEPT !.totals[<< role[1], "after_2000" >>] = @ + amount[1] ]

RECURSIVE SecondaryLoop(_, _, _)
SecondaryLoop(doc, b, nodes) ==
    IF nodes = << >> THEN b
    ELSE SecondaryLoop(doc, SecondaryStep(doc, b, Head(nodes)), Tail(nodes))

\* The secondary pass runs unless both roles have period data.
SecondaryPass(doc, n, b) ==
    IF ~(\A r \in ROLES : b.has[r])
    THEN SecondaryLoop(doc, b, FindAllDesc2(doc, n, "BlockItrot", "PerutYitrot"))
    ELSE b

\* The result dict: the column of every bucket with a nonzero total.
BucketResult(totals) ==
    LET keys == { key \in TAGMUL_KEYS : totals[key] # 0 }
    IN  [ c \in { TAGMUL_PERIOD_COLUMNS[key] : key \in keys } |->
            totals[CHOOSE key \in keys : TAGMUL_PERIOD_COLUMNS[key] = c] ]

_collect_tagmul_periods(doc, n) ==
    BucketResult(SecondaryPass(doc, n, PrimaryPass(doc, n)).totals)

\* sum(d.values())
RECURSIVE SumValues(_)
SumValues(d) ==
    IF DOMAIN d = {} THEN 0
    ELSE LET k == CHOOSE x \in DOMAIN d : TRUE
         IN  d[k] + SumValues([ x \in DOMAIN d \ { k } |-> d[x] ])

\* ----------------------------------------------------------------- severance

BALANCE_EXPLICIT_TAGS ==
    { "TOTAL-CHISACHON-MTZBR", "TOTAL-ERKEI-PIDION", "YITRAT-KASPEY-TAGMULIM",
      "YITRAT-PITZUIM", "YITRAT-PITZUIM-MAASIK-NOCHECHI",
      "YITRAT-PITZUIM-LEKITZBA-MAAVIDIM-KODMIM",
      "ERECH-PIDION-PITZUIM-MAASIK-NOCHECHI",
      "ERECH-PIDION-PITZUIM-LEKITZBA-MAAVIDIM-KODMIM",
      "TOTAL-HAFKADOT-OVED-TAGMULIM-SHANA-NOCHECHIT",
      "TOTAL-HAFKADOT-MAAVID-TAGMULIM-SHANA-NOCHECHIT",
      "TOTAL-HAFKADOT-PITZUIM-SHANA-NOCHECHIT", "SCHUM-HAFKADA-SHESHULAM",
      "SCHUM-TAGMULIM", "SCHUM-PITURIM" }

\* The tags of the model's documents whose upper-cased name contains one of
\* BALANCE_KEYWORDS (TAGMUL, PITZ, PITZU, PITZUI).
KEYWORD_TAGS ==
    { "YITRAT-KASPEY-TAGMULIM", "YITRAT-PITZUIM",
      "YITRAT-PITZUIM-MAASIK-NOCHECHI",
      "YITRAT-PITZUIM-LEKITZBA-MAAVIDIM-KODMIM",
      "ERECH-PIDION-PITZUIM-MAASIK-NOCHECHI",
      "ERECH-PIDION-PITZUIM-LEKITZBA-MAAVIDIM-KODMIM",
      "TOTAL-HAFKADOT-OVED-TAGMULIM-SHANA-NOCHECHIT",
      "TOTAL-HAFKADOT-MAAVID-TAGMULIM-SHANA-NOCHECHIT",
      "TOTAL-HAFKADOT-PITZUIM-SHANA-NOCHECHIT", "SCHUM-TAGMULIM",
      "TZVIRAT-PITZUIM-PTURIM-MAAVIDIM-KODMIM",
      "YITRAT-PITZUIM-LELO-HITCHASHBENOT",
      "TZVIRAT-PITZUIM-MAAVIDIM-KODMIM-BERETZEF-ZECHUYOT",
      "TZVIRAT-PITZUIM-MAAVIDIM-KODMIM-BERETZEF-KITZBA" }

\* The five categories of SEVERANCE_COLUMN_TAGS, titles transliterated.
SEVERANCE_COLUMNS ==
    << "pitzuim maasik nochechi", "pitzuim leachar hitchashbenut",
       "pitzuim shelo avru hitchashbenut",
       "pitzuim mimaasikim kodmim beretzef zechuyot",
       "pitzuim mimaasikim kodmim beretzef kitzba" >>

SEVERANCE_COLUMN_TAGS ==
    << << "ERECH-PIDION-PITZUIM-MAASIK-NOCHECHI",
          "YITRAT-PITZUIM-MAASIK-NOCHECHI" >>,
       << "ERECH-PIDION-PITZUIM-LEKITZBA-MAAVIDIM-KODMIM" >>,
       << "TZVIRAT-PITZUIM-PTURIM-MAAVIDIM-KODMIM",
          "YITRAT-PITZUIM-LELO-HITCHASHBENOT" >>,
       << "TZVIRAT-PITZUIM-MAAVIDIM-KODMIM-BERETZEF-ZECHUYOT" >>,
       << "TZVIRAT-PITZUIM-MAAVIDIM-KODMIM-BERETZEF-KITZBA" >> >>

NUMERIC_SENTINELS ==
    { << >>, << "0" >>, << "0", ".", "0" >>, << "0", ".", "0", "0" >>,
      << "N", "I", "L" >>, << "N", "o", "n", "e" >>, << "n", "o", "n", "e" >> }

\* The order-preserving de-duplication loop of the collectors.
RECURSIVE Unique(_)
Unique(values) ==
    IF values = << >> THEN << >>
    ELSE LET init == Unique(SubSeq(values, 1, Len(values) - 1))
             last == values[Len(values)]
         IN  IF \E i \in 1..Len(init) : init[i] = last THEN init
             ELSE Append(init, last)

\* ' | '.join(values)
RECURSIVE Join(_)
Join(values) ==
    IF values = << >> THEN << >>
    ELSE IF Len(values) = 1 THEN values[1]
    ELSE values[1] \o << " ", "|", " " >> \o Join(Tail(values))

\* value.split('|')
RECURSIVE Split(_)
Split(s) ==
    LET ps == { i \in 1..Len(s) : s[i] = "|" }
    IN  IF ps = {} THEN << s >>
        ELSE LET p == CHOOSE i \in ps : \A j \in ps : i <= j
             IN  << SubSeq(s, 1, p - 1) >> \o Split(SubSeq(s, p + 1, Len(s)))

\* The texts _collect_balance_related_fields gathers for a tag, in order.
BalanceTexts(doc, n, tag) ==
    LET it == Iter(doc, n)
        hit == SelectSeq(it, LAMBDA j : doc[j].tag = tag /\ Strip(doc[j].text) # << >>)
    IN  [ i \in 1..Len(hit) |-> Strip(doc[hit[i]].text) ]

\* A variant that joins the captured texts of a tag as collected, repeats
\* included.
CollectBalanceFieldsRaw(doc, n) ==
    LET it == Iter(doc, n)
        tags == { doc[it[i]].tag : i \in 1..Len(it) }
        kept == { t \in tags :
                    /\ t \in BALANCE_EXPLICIT_TAGS \cup KEYWORD_TAGS
                    /\ BalanceTexts(doc, n, t) # << >> }
    IN  [ t \in kept |-> Join(BalanceTexts(doc, n, t)) ]

_collect_balance_related_fields(doc, n) ==
    LET it == Iter(doc, n)
        tags == { doc[it[i]].tag : i \in 1..Len(it) }
        kept == { t \in tags :
                    /\ t \in BALANCE_EXPLICIT_TAGS \cup KEYWORD_TAGS
                    /\ BalanceTexts(doc, n, t) # << >> }
    IN  [ t \in kept |-> Join(Unique(BalanceTexts(doc, n, t))) ]

RECURSIVE SumParts(_)
SumParts(parts) ==
    IF parts = << >> THEN 0
    ELSE LET normalized == RemoveChar(Head(parts), ",")
             v == PyFloat(normalized)
         IN  (IF normalized \in NUMERIC_SENTINELS \/ v = None THEN 0 ELSE v[1])
             + SumParts(Tail(parts))

\* A variant that reads the captured string as one number, without splitting.
SafeSumUnsplit(value) ==
    IF value = None THEN 0 ELSE SumParts(<< Strip(value[1]) >>)

\* _safe_sum_values of a captured string, or of None.
_safe_sum_values(value) ==
    IF value = None THEN 0
    ELSE LET raw == Split(value[1])
             stripped == [ i \in 1..Len(raw) |-> Strip(raw[i]) ]
         IN  SumParts(SelectSeq(stripped, LAMBDA part : part # << >>))

DictGet(d, k) == IF k \in DOMAIN d THEN Some(d[k]) ELSE None

SeveranceTotal(balance_fields, c) ==
    LET tags == SEVERANCE_COLUMN_TAGS[c]
        sums == [ i \in 1..Len(tags) |->
                    _safe_sum_values(DictGet(balance_fields, tags[i])) ]
    IN  IF Len(tags) = 1 THEN sums[1] ELSE sums[1] + sums[2]

_extract_severance_components(balance_fields) ==
    LET cols == { c \in 1..Len(SEVERANCE_COLUMNS) :
                    SeveranceTotal(balance_fields, c) # 0 }
    IN  [ name \in { SEVERANCE_COLUMNS[c] : c \in cols } |->
            SeveranceTotal(balance_fields,
                           CHOOSE c \in cols : SEVERANCE_COLUMNS[c] = name) ]

\* ----------------------------------------------------------- field resolver

\* The non-blank texts, stripped, of the tag's nodes below one element.
TagTextsBelow(doc, n, tag) ==
    LET found == FindAllDesc(doc, n, tag)
        kept == SelectSeq(found, LAMBDA j : Strip(doc[j].text) # << >>)
    IN  [ i \in 1..Len(kept) |-> Strip(doc[kept[i]].text) ]

\* A variant of the while loop that stops at the start element.
RECURSIVE ClimbNever(_, _, _, _)
ClimbNever(doc, current, tag, include_parents) ==
    TagTextsBelow(doc, current, tag)

\* The while loop of _collect_tag_values: the start element, then each
\* ancestor up to the root (whose parent_map entry is missing).
RECURSIVE ClimbValues(_, _, _, _)
ClimbValues(doc, current, tag, include_parents) ==
    TagTextsBelow(doc, current, tag)
    \o (IF include_parents /\ current > 1
        THEN ClimbValues(doc, doc[current].parent, tag, include_parents)
        ELSE << >>)

\* A variant that returns the matches as collected, repeats included.
CollectTagValuesRaw(doc, start, tag, include_parents) ==
    ClimbValues(doc, start, tag, include_parents)

_collect_tag_values(doc, start, tag, include_parents) ==
    Unique(ClimbValues(doc, start, tag, include_parents))

\* -------------------------------------------------- product-type classifier

\* A Hebrew letter is written as its name; a Latin letter as itself.
\* str.lower() changes Latin capitals only.
LowerChar(c) ==
        CASE c = "A" -> "a" [] c = "B" -> "b" [] c = "C" -> "c" [] c = "D" -> "d"
          [] c = "E" -> "e" [] c = "F" -> "f" [] c = "G" -> "g" [] c = "H" -> "h"
          [] c = "I" -> "i" [] c = "J" -> "j" [] c = "K" -> "k" [] c = "L" -> "l"
          [] c = "M" -> "m" [] c = "N" -> "n" [] c = "O" -> "o" [] c = "P" -> "p"
          [] c = "Q" -> "q" [] c = "R" -> "r" [] c = "S" -> "s" [] c = "T" -> "t"
          [] c = "U" -> "u" [] c = "V" -> "v" [] c = "W" -> "w" [] c = "X" -> "x"
          [] c = "Y" -> "y" [] c = "Z" -> "z"
          [] OTHER -> c

Lower(s) == [ i \in 1..Len(s) |-> LowerChar(s[i]) ]

\* kw in s
Contains(s, kw) ==
    \E i \in 0..(Len(s) - Len(kw)) : SubSeq(s, i + 1, i + Len(kw)) = kw

KW_GEMEL_LEHASHKAA ==
    << "gimel", "mem", "lamed", " ", "lamed", "he", "shin", "qof", "ayin", "he" >>
KW_HISHTALMUT == << "he", "shin", "tav", "lamed", "mem", "vav", "tav" >>
KW_PENSIA == << "pe", "nun", "samekh", "yod", "he" >>
KW_MAKEFET == << "mem", "qof", "pe", "tav" >>
KW_ATUDOT == << "ayin", "tav", "vav", "dalet", "vav", "tav" >>
KW_GEMEL == << "gimel", "mem", "lamed" >>
KW_BITUACH == << "bet", "yod", "tet", "vav", "het" >>
KW_CHAIM == << "het", "yod", "yod", "mem_sofit" >>
KW_MENAHALIM == << "mem", "nun", "he", "lamed", "yod", "mem_sofit" >>
KW_MENAHEL == << "mem", "nun", "he", "lamed" >>
KW_CHISACHON == << "het", "yod", "samekh", "kaf", "vav", "nun_sofit" >>
KW_SAVINGS == << "s", "a", "v", "i", "n", "g", "s" >>

\* The labels, transliterated.
GEMEL_LEHASHKAA == "gemel lehashkaa"
KEREN_HISHTALMUT == "keren hishtalmut"
KEREN_PENSIA == "keren pensia"
KUPAT_GEMEL == "kupat gemel"
POLISAT_BITUACH_CHAIM == "polisat bituach chaim"
POLISAT_BITUACH_CHAIM_MESHULAV == "polisat bituach chaim meshulav chisachon"
POLISAT_CHISACHON_TAHOR == "polisat chisachon tahor"

\* PRODUCT_TYPE_MAP.get(code); "" when the code is not in the table.
PRODUCT_TYPE_MAP(code) ==
    CASE code = << "1" >> -> POLISAT_BITUACH_CHAIM_MESHULAV
      [] code = << "2" >> -> POLISAT_BITUACH_CHAIM
      [] code = << "3" >> -> KUPAT_GEMEL
      [] code = << "4" >> -> KEREN_PENSIA
      [] code = << "5" >> -> POLISAT_CHISACHON_TAHOR
      [] OTHER -> ""

\* The keyword rules applied to one plan name; "" when none matches.
NameRule(name) ==
    IF Contains(name, KW_GEMEL_LEHASHKAA) THEN GEMEL_LEHASHKAA
    ELSE IF Contains(name, KW_HISHTALMUT) THEN KEREN_HISHTALMUT
    ELSE IF Contains(name, KW_PENSIA) \/ Contains(name, KW_MAKEFET)
            \/ Contains(name, KW_ATUDOT) THEN KEREN_PENSIA
    ELSE IF Contains(name, KW_GEMEL) THEN KUPAT_GEMEL
    ELSE IF Contains(name, KW_BITUACH)
            /\ (Contains(name, KW_CHAIM) \/ Contains(name, KW_MENAHALIM)
                \/ Contains(name, KW_MENAHEL))
         THEN IF Contains(name, KW_MAKEFET) \/ Contains(name, KW_PENSIA)
              THEN KEREN_PENSIA ELSE POLISAT_BITUACH_CHAIM
    ELSE IF Contains(name, KW_CHISACHON) \/ Contains(Lower(name), KW_SAVINGS)
         THEN POLISAT_CHISACHON_TAHOR
    ELSE ""

\* The label of the first plan name that a rule matches: "" when none.
RECURSIVE FirstNameLabel(_)
FirstNameLabel(names) ==
    IF names = << >> THEN ""
    ELSE IF NameRule(Head(names)) # "" THEN NameRule(Head(names))
    ELSE FirstNameLabel(Tail(names))

PLAN_NAME_TAGS == << "SHEM-TOCHNIT", "TOCHNIT", "SHEM_TOCHNIT" >>

PlanNames(doc, n) ==
    LET all == Flatten([ k \in 1..Len(PLAN_NAME_TAGS) |->
                           _collect_tag_values(doc, n, PLAN_NAME_TAGS[k], TRUE) ])
        norm == [ i \in 1..Len(all) |-> Strip(all[i]) ]
    IN  SelectSeq(norm, LAMBDA x : x # << >>)

ProductCodes(doc, n) ==
    LET codes == _collect_tag_values(doc, n, "SUG-MUTZAR", TRUE)
        code == _get_text(doc, n, "SUG-MUTZAR")
    IN  IF codes # << >> THEN codes
        ELSE IF code # << >> THEN << code >> ELSE << >>

NameType(doc, n) == FirstNameLabel(PlanNames(doc, n))

\* The label of the first product code found in the table: "" when none.
RECURSIVE FirstCodeLabel(_)
FirstCodeLabel(codes) ==
    IF codes = << >> THEN ""
    ELSE IF PRODUCT_TYPE_MAP(Strip(Head(codes))) # ""
    THEN PRODUCT_TYPE_MAP(Strip(Head(codes)))
    ELSE FirstCodeLabel(Tail(codes))

CodeType(doc, n) == FirstCodeLabel(ProductCodes(doc, n))

INSURANCE_LABELS ==
    { POLISAT_BITUACH_CHAIM_MESHULAV, POLISAT_BITUACH_CHAIM,
      POLISAT_CHISACHON_TAHOR }

\* A variant that prefers the code-based label whenever both resolve.
MergeTypesCodeFirst(code_type, name_type) ==
    IF code_type # "" THEN code_type ELSE name_type

\* The merge of lines 744-761, for two labels of which at least one resolved.
MergeTypes(code_type, name_type) ==
    IF code_type # "" /\ name_type # ""
    THEN IF code_type = name_type THEN code_type
         ELSE IF code_type \in INSURANCE_LABELS
         THEN IF name_type \in { KEREN_PENSIA, KEREN_HISHTALMUT }
              THEN name_type ELSE code_type
         ELSE name_type
    ELSE IF name_type # "" THEN name_type
    ELSE code_type

\* A variant that, with no label, prefers the raw code to the raw plan name.
ProductTypeRawCodeFirst(doc, n) ==
    LET code_type == CodeType(doc, n)
        name_type == NameType(doc, n)
        plan_names == PlanNames(doc, n)
        codes == SelectSeq(ProductCodes(doc, n), LAMBDA c : Strip(c) # << >>)
    IN  IF code_type # "" \/ name_type # ""
        THEN [ label |-> MergeTypes(code_type, name_type), raw |-> << >> ]
        ELSE IF codes # << >> THEN [ label |-> "", raw |-> Strip(codes[1]) ]
        ELSE IF plan_names # << >> THEN [ label |-> "", raw |-> plan_names[1] ]
        ELSE [ label |-> "", raw |-> << >> ]

\* _get_product_type: a label, or else a raw text (the first plan name, the
\* first non-empty code, or the empty string).
_get_product_type(doc, n) ==
    LET code_type == CodeType(doc, n)
        name_type == NameType(doc, n)
        plan_names == PlanNames(doc, n)
        codes == SelectSeq(ProductCodes(doc, n), LAMBDA c : Strip(c) # << >>)
    IN  IF code_type # "" \/ name_type # ""
        THEN [ label |-> MergeTypes(code_type, name_type), raw |-> << >> ]
        ELSE IF plan_names # << >> THEN [ label |-> "", raw |-> plan_names[1] ]
        ELSE IF codes # << >> THEN [ label |-> "", raw |-> Strip(codes[1]) ]
        ELSE [ label |-> "", raw |-> << >> ]

\* ------------------------------------------------------------ record fields

\* The "unknown" sentinel of the categorical fields, letter by letter.
UNKNOWN == << "lamed", "alef", " ", "yod", "dalet", "vav", "ayin" >>

ACCOUNT_NUMBER_TAGS ==
    << "MISPAR-POLISA-O-HESHBON", "MISPAR-HESHBON", "MISPAR-POLISA",
       "AccountNumber", "AccountId", "PolicyNumber" >>

COMPANY_TAGS ==
    << "SHEM-YATZRAN", "YATZRAN", "SHEM_HA_MOSAD", "Company", "Provider" >>

\* a or b: the first operand unless it is empty.
OrElse(a, b) == IF a # << >> THEN a ELSE b

\* _get_text(tag1) or _get_text(tag2) or ...: '' when every one is empty.
RECURSIVE FirstText(_, _, _)
FirstText(doc, n, tags) ==
    IF tags = << >> THEN << >>
    ELSE OrElse(_get_text(doc, n, Head(tags)), FirstText(doc, n, Tail(tags)))

_format_date(value) ==
    LET v == Strip(value)
        dash == << "-" >>
    IN  IF v # << >> /\ AllDigits(v) /\ Len(v) = 8
        THEN SubSeq(v, 1, 4) \o dash \o SubSeq(v, 5, 6) \o dash \o SubSeq(v, 7, 8)
        ELSE IF v # << >> /\ AllDigits(v) /\ Len(v) = 6
        THEN SubSeq(v, 1, 4) \o dash \o SubSeq(v, 5, 6)
        ELSE v

DATE_FIELDS ==
    << "TAARICH-NECHONUT", "TAARICH-ERECH-TZVIROT", "TAARICH-ERECH",
       "TAARICH-MADAD", "TAARICH-ERECH-HAFKADA" >>

\* The fallback of _get_balance_date: the first TAARICH-ERECH-TZVIROT below a
\* BlockItrot, whatever follows it.
YitrotDate(doc, found) ==
    IF found # << >> /\ doc[found[1]].text # << >>
    THEN _format_date(doc[found[1]].text)
    ELSE << >>

\* The stripped text of the first node found, '' when there is none.
FirstFoundText(doc, found) ==
    IF found # << >> /\ doc[found[1]].text # << >> THEN Strip(doc[found[1]].text)
    ELSE << >>

_get_balance_date(doc, n) ==
    OrElse(_format_date(FirstText(doc, n, DATE_FIELDS)),
           YitrotDate(doc, FindAllDesc2(doc, n, "BlockItrot", "TAARICH-ERECH-TZVIROT")))

_get_start_date(doc, n) == _format_date(_get_text(doc, n, "TAARICH-HITZTARFUT-RISHON"))

\* MANAGING_COMPANY_TAGS, split as _get_managing_company splits it: the tags
\* that neither start with KOD nor contain MEZAHE, and the others.
MANAGING_NAME_TAGS ==
    << "SHEM-METAFEL", "SHEM-YATZRAN", "SHEM_HA_MOSAD", "Provider", "Company" >>

MANAGING_CODE_TAGS ==
    << "KOD-MEZAHE-METAFEL", "KOD-MEZAHE-YATZRAN", "KOD-YATZRAN",
       "MEZAHE-YATZRAN" >>

MANAGING_COMPANY_TAGS == MANAGING_NAME_TAGS \o MANAGING_CODE_TAGS

PLAN_TYPE_TAGS ==
    << "SUG-TOCHNIT-O-CHESHBON", "SUG-POLISA", "SUG-MUTZAR", "SUG-KEREN-PENSIA",
       "SUG-KUPA", "SUG-HAFRASHA" >>

\* values[0] of the first tag that has values, else ''.
FirstOf(values, rest) == IF values # << >> THEN values[1] ELSE rest

RECURSIVE FirstCollected(_, _, _)
FirstCollected(doc, n, tags) ==
    IF tags = << >> THEN << >>
    ELSE FirstOf(_collect_tag_values(doc, n, Head(tags), TRUE),
                 FirstCollected(doc, n, Tail(tags)))

_get_managing_company(doc, n, fallback_name) ==
    [ name |-> OrElse(FirstCollected(doc, n, MANAGING_NAME_TAGS),
                      OrElse(fallback_name, UNKNOWN)),
      code |-> OrElse(FirstCollected(doc, n, MANAGING_CODE_TAGS), UNKNOWN) ]

_collect_specific_tags(doc, n, tags, include_parents) ==
    LET kept == { i \in 1..Len(tags) :
                    _collect_tag_values(doc, n, tags[i], include_parents) # << >> }
    IN  [ tag \in { tags[i] : i \in kept } |->
            Join(_collect_tag_values(doc, n, tag, include_parents)) ]

\* ------------------------------------------------------------ employer names

EMPLOYER_NAME_TAGS ==
    << "SHEM-MAASIK", "SHEM-MESHALEM", "SHEM-BAAL-POLISA-SHEEINO-MEVUTAH",
       "SHEM-BAAL-POLISA", "SHEM-MAFKID", "SHEM-BEALIM", "SHEM-HAMESHALLEM" >>

\* str.strip(c) for one character c.
RECURSIVE LStripChar(_, _)
LStripChar(s, c) ==
    IF s # << >> /\ Head(s) = c THEN LStripChar(Tail(s), c) ELSE s

RECURSIVE RStripChar(_, _)
RStripChar(s, c) ==
    IF s # << >> /\ s[Len(s)] = c THEN RStripChar(SubSeq(s, 1, Len(s) - 1), c)
    ELSE s

StripChar(s, c) == RStripChar(LStripChar(s, c), c)

\* str.replace(' | ', ' ')
RECURSIVE ReplaceJoin(_)
ReplaceJoin(s) ==
    IF s = << >> THEN << >>
    ELSE IF Len(s) >= 3 /\ SubSeq(s, 1, 3) = << " ", "|", " " >>
    THEN << " " >> \o ReplaceJoin(SubSeq(s, 4, Len(s)))
    ELSE << Head(s) >> \o ReplaceJoin(Tail(s))

\* clean_value; the double quote is written "dquote".
CleanName(value) ==
    Strip(ReplaceJoin(StripChar(StripChar(Strip(value), "dquote"), "'")))

AddName(names, clean_value) ==
    IF clean_value = << >> \/ \E i \in 1..Len(names) : names[i] = clean_value
    THEN names
    ELSE Append(names, clean_value)

\* The inner loop of _collect_employer_names over the values of one tag.
RECURSIVE AddNames(_, _)
AddNames(names, values) ==
    IF values = << >> THEN names
    ELSE AddNames(AddName(names, CleanName(Head(values))), Tail(values))

\* A variant whose seen set starts empty at every tag.
EmployerLoopPerTag(doc, n, tags, names) ==
    Flatten([ i \in 1..Len(tags) |->
                AddNames(<< >>, _collect_tag_values(doc, n, tags[i], TRUE)) ])

\* The outer loop of _collect_employer_names: the tags in their fixed order.
RECURSIVE EmployerLoop(_, _, _, _)
EmployerLoop(doc, n, tags, names) ==
    IF tags = << >> THEN names
    ELSE EmployerLoop(doc, n, Tail(tags),
                      AddNames(names, _collect_tag_values(doc, n, Head(tags), TRUE)))

_collect_employer_names(doc, n) ==
    EmployerLoop(doc, n, EMPLOYER_NAME_TAGS, << >>)

\* '.'.join(names)
RECURSIVE JoinDot(_)
JoinDot(values) ==
    IF values = << >> THEN << >>
    ELSE IF Len(values) = 1 THEN values[1]
    ELSE values[1] \o << "." >> \o JoinDot(Tail(values))

\* ------------------------------------------------------------ person details

KNISA == << "kaf", "nun", "yod", "samekh", "he" >>
DIRA == << "dalet", "yod", "resh", "he" >>
MIKUD == << "mem", "yod", "qof", "vav", "dalet" >>
ZACHAR == << "zayin", "kaf", "resh" >>
NEKEVA == << "nun", "qof", "bet", "he" >>

\* ' '.join(parts) and ', '.join(parts)
RECURSIVE JoinWith(_, _)
JoinWith(values, sep) ==
    IF values = << >> THEN << >>
    ELSE IF Len(values) = 1 THEN values[1]
    ELSE values[1] \o sep \o JoinWith(Tail(values), sep)

\* A list holding the value when it is not empty.
IfPresent(value) == IF value # << >> THEN << value >> ELSE << >>

\* details[key] = value, set only under "if value:".
Detail(key, value) ==
    IF value # << >> THEN key :> value ELSE [ k \in {} |-> << >> ]

\* The first of the candidate containers found below the root.
CustomerElem(doc) ==
    OrElse(FindDesc(doc, 1, "YeshutLakoach"), FindDesc(doc, 1, "Lakoach"))

\* A variant that writes the house, entrance and apartment without a street.
StreetPartLoose(street, house, entrance, apartment) ==
    IfPresent(JoinWith(IfPresent(street) \o IfPresent(house)
                       \o IfPresent(entrance) \o IfPresent(apartment), << " " >>))

\* The first clause of the address: nothing without a street.
StreetPart(street, house, entrance, apartment) ==
    IF street = << >> THEN << >>
    ELSE << street
            \o (IF house # << >> THEN << " " >> \o house ELSE << >>)
            \o (IF entrance # << >>
                THEN << ",", " " >> \o KNISA \o << " " >> \o entrance ELSE << >>)
            \o (IF apartment # << >>
                THEN << ",", " " >> \o DIRA \o << " " >> \o apartment ELSE << >>) >>

FullAddress(doc, c) ==
    JoinWith(StreetPart(_get_text(doc, c, "SHEM-RECHOV"), _get_text(doc, c, "MISPAR-BAIT"),
                        _get_text(doc, c, "MISPAR-KNISA"), _get_text(doc, c, "MISPAR-DIRA"))
             \o IfPresent(_get_text(doc, c, "SHEM-YISHUV"))
             \o (IF _get_text(doc, c, "MIKUD") # << >>
                 THEN << MIKUD \o << " " >> \o _get_text(doc, c, "MIKUD") >>
                 ELSE << >>)
             \o IfPresent(_get_text(doc, c, "ERETZ")),
             << ",", " " >>)

\* raw_id.lstrip('0') or raw_id
CleanId(raw_id) == OrElse(LStripChar(raw_id, "0"), raw_id)

\* _find_text_anywhere
_find_text_anywhere(doc, n, tag) ==
    FirstFoundText(doc, FindAllDesc(doc, n, tag))

GenderLabel(gender) ==
    IF gender = << "1" >> THEN ZACHAR
    ELSE IF gender = << "2" >> THEN NEKEVA
    ELSE << >>

PersonDetails(doc, c) ==
    Detail("id_number",
           CleanId(FirstText(doc, c, << "MISPAR-ZIHUY-LAKOACH", "MISPAR-ZEHUT",
                                        "MISPAR-ZIHUY" >>)))
    @@ Detail("full_name",
              JoinWith(IfPresent(FirstText(doc, c, << "SHEM-PRATI",
                                                      "SHEM-PRATI-LAKOACH" >>))
                       \o IfPresent(FirstText(doc, c, << "SHEM-MISHPACHA",
                                                         "SHEM-MISHPACHA-LAKOACH" >>)),
                       << " " >>))
    @@ Detail("birth_date",
              _format_date(FirstText(doc, c, << "TAARICH-LEIDA", "TAARICH-LEYDA" >>)))
    @@ Detail("full_address", FullAddress(doc, c))
    @@ Detail("phone", _get_text(doc, c, "MISPAR-TELEPHONE-KAVI"))
    @@ Detail("mobile", _get_text(doc, c, "MISPAR-CELLULARI"))
    @@ Detail("email", _find_text_anywhere(doc, c, "E-MAIL"))
    @@ Detail("gender_code", _get_text(doc, c, "MIN"))
    @@ Detail("gender", GenderLabel(_get_text(doc, c, "MIN")))

_extract_person_details(doc) ==
    IF CustomerElem(doc) = None THEN [ k \in {} |-> << >> ]
    ELSE PersonDetails(doc, CustomerElem(doc)[1])

\* ------------------------------------------------------------ orchestrator

\* A variant that leaves a difference of exactly the tolerance unsnapped.
BalanceDiscrepancyStrict(balance, component_total) ==
    IF Abs(balance - component_total) < BALANCE_TOLERANCE
    THEN 0 ELSE balance - component_total

\* balance_diff: the difference, snapped to zero within the tolerance.
BalanceDiscrepancy(balance, component_total) ==
    IF Abs(balance - component_total) <= BALANCE_TOLERANCE
    THEN 0 ELSE balance - component_total

\* The record _extract_data appends for one account, from the values the loop
\* body has computed (balance_tier: the return statement of _find_balance
\* taken; primary: totals_by_key and has_period_data after the primary loop).
AccountRecord(n, found, primary, tagmul_periods, severance_components, product_type) ==
    LET tagmul_total == SumValues(tagmul_periods)
        severance_total == SumValues(severance_components)
        component_total == tagmul_total + severance_total
    IN  [ node |-> n,
          balance |-> found.value,
          balance_tier |-> found.tier,
          primary |-> primary,
          tagmul_periods |-> tagmul_periods,
          severance_components |-> severance_components,
          tagmul_total |-> tagmul_total,
          severance_total |-> severance_total,
          component_total |-> component_total,
          balance_diff |-> BalanceDiscrepancy(found.value, component_total),
          product_type |-> product_type ]

\* The text fields of acc_data, from the values the loop body has computed
\* (managing: the pair _get_managing_company returns).
AccountTexts(acc_number, plan, managing, managing_company_fields, balance_date, start_date, plan_type_fields, balance_related_fields, employer_names) ==
    [ account_number |-> acc_number,
      plan_name |-> plan,
      managing_company |->
          IF "SHEM-YATZRAN" \in DOMAIN managing_company_fields
          THEN managing_company_fields["SHEM-YATZRAN"]
          ELSE managing.name,
      managing_company_code |-> managing.code,
      balance_date |-> OrElse(balance_date, UNKNOWN),
      start_date |-> start_date,
      employer_history |-> JoinDot(employer_names),
      managing_company_fields |-> managing_company_fields,
      plan_type_fields |-> plan_type_fields,
      balance_related_fields |-> balance_related_fields,
      employer_names |-> employer_names ]

\* The loop body of _extract_data for one account node.
ExtractAccount(doc, n) ==
    AccountRecord(n,
                  _find_balance(doc, n),
                  PrimaryPass(doc, n),
                  _collect_tagmul_periods(doc, n),
                  _extract_severance_components(
                      _collect_balance_related_fields(doc, n)),
                  _get_product_type(doc, n))
    @@ AccountTexts(OrElse(FirstText(doc, n, ACCOUNT_NUMBER_TAGS), UNKNOWN),
                    OrElse(FirstText(doc, n, PLAN_NAME_TAGS), UNKNOWN),
                    _get_managing_company(
                        doc, n, OrElse(FirstText(doc, n, COMPANY_TAGS), UNKNOWN)),
                    _collect_specific_tags(doc, n, MANAGING_COMPANY_TAGS, TRUE),
                    _get_balance_date(doc, n),
                    _get_start_date(doc, n),
                    _collect_specific_tags(doc, n, PLAN_TYPE_TAGS, FALSE),
                    _collect_balance_related_fields(doc, n),
                    _collect_employer_names(doc, n))

\* _extract_data: the located account nodes, one record each.
_extract_data(doc) ==
    LET located == LocateAccounts(doc)
    IN  [ tier |-> located.tier,
          person_details |-> _extract_person_details(doc),
          accounts |-> [ i \in 1..Len(located.nodes) |->
                           ExtractAccount(doc, located.nodes[i]) ] ]

\* -------------------------------------------------------------- documents

\* A subtree is a sequence of nodes whose parents are relative to it (0: the
\* place it is attached to).
Leaf(tag, text) == << Node(tag, text, 0) >>

Graft(doc, p, sub) ==
    doc \o [ i \in 1..Len(sub) |->
               [ sub[i] EXCEPT !.parent = IF @ = 0 THEN p ELSE @ + Len(doc) ] ]

RECURSIVE GraftAll(_, _, _)
GraftAll(doc, p, subs) ==
    IF subs = << >> THEN doc
    ELSE GraftAll(Graft(doc, p, Head(subs)), p, Tail(subs))

\* An element with the given subtrees as children.
Elem(tag, subs) == GraftAll(Leaf(tag, << >>), 1, subs)

\* A child carrying a text, or nothing when the text is absent.
Field(tag, text) == IF text = << >> THEN << >> ELSE << Leaf(tag, text) >>

\* The sequences over S of length at most n.
RECURSIVE SeqsUpTo(_, _)
SeqsUpTo(S, n) ==
    IF n = 0 THEN { << >> }
    ELSE LET shorter == SeqsUpTo(S, n - 1)
         IN  shorter \cup { Append(q, x) : q \in shorter, x \in S }

\* A per-track balance node, a per-period node and an account.
PerutYitrot(sug, amount) ==
    Elem("PerutYitrot",
         Field("KOD-SUG-HAFRASHA", sug) \o Field("TOTAL-CHISACHON-MTZBR", amount))

PerutYitraLeTkufa(rekiv, techulat, amount) ==
    Elem("PerutYitraLeTkufa",
         Field("REKIV-ITRA-LETKUFA", rekiv)
         \o Field("KOD-TECHULAT-SHICHVA", techulat)
         \o Field("SACH-ITRA-LESHICHVA-BESHACH", amount))

Account(subs) ==
    Elem("HeshbonOPolisa",
         << Leaf("MISPAR-POLISA-O-HESHBON", << "7" >>) >> \o subs)

Mimshak(accts) == Elem("Mimshak", accts)

\* The documents of the whole-record family: one account with at most one
\* per-track balance node, one employer per-period node and one severance tag.
RecordBalances ==
    { << >>, << "1", "0", "0", "0" >>, << "1", ",", "0", "0", "0", ".", "4", "0" >>,
      << "0", ".", "3", "0" >>, << "-", "1", "0", "0" >> }

RecordSugs == { << >>, << "2" >> }

RecordAmounts ==
    { << >>, << "5", "0", "0" >>, << "9", "9", "9", ".", "9", "0" >>,
      << "-", "2", "0", "0" >>, << "1", "0", "0", "0" >> }

RecordSeverances ==
    { << >>, << "5", "0", "0" >>, << "0", ".", "5", "0" >>,
      << "-", "5", "0" >>, << "N", "I", "L" >> }

RecordDoc(bal, sug, amt, sev) ==
    Mimshak(<< Account(<<
        Elem("BlockItrot",
             (IF bal = << >> THEN << >> ELSE << PerutYitrot(sug, bal) >>)
             \o (IF amt = << >> THEN << >>
                 ELSE << PerutYitraLeTkufa(<< "3" >>, << "2" >>, amt) >>)
             \o Field("ERECH-PIDION-PITZUIM-MAASIK-NOCHECHI", sev)) >>) >>)

DocsRecord ==
    { RecordDoc(bal, sug, amt, sev) :
        bal \in RecordBalances, sug \in RecordSugs,
        amt \in RecordAmounts, sev \in RecordSeverances }

\* ---------------------------------------------------------------- actions

\* PensionFileProcessor(file_path): no tree, no result.
Init ==
    /\ root = << >>
    /\ result = None
    /\ pc = "new"
    /\ accounts = << >>
    /\ results = << >>
    /\ files = << >>

\* _load_file succeeds: the parsed tree becomes self.root.
LoadFile(doc) ==
    /\ pc = "new"
    /\ root' = doc
    /\ pc' = "loaded"
    /\ UNCHANGED << result, accounts, results, files >>

\* _load_file fails (unreadable or malformed): process returns None.
LoadFails ==
    /\ pc = "new"
    /\ pc' = "done"
    /\ UNCHANGED << root, result, accounts, results, files >>

\* process: _extract_data on the loaded tree.
ExtractData ==
    /\ pc = "loaded"
    /\ result' = Some(_extract_data(root))
    /\ pc' = "done"
    /\ UNCHANGED << root, accounts, results, files >>

\* PensionFileProcessor(file_path) for another file: a fresh processor.
NewProcessor ==
    /\ pc = "done"
    /\ root' = << >>
    /\ result' = None
    /\ pc' = "new"
    /\ accounts' = << >>
    /\ UNCHANGED << results, files >>

LoadRecord == \E doc \in DocsRecord : LoadFile(doc)

Next == LoadRecord \/ LoadFails \/ ExtractData \/ NewProcessor

Spec == Init /\ [][Next]_vars

\* The accounts of the result, when there is one.
Accounts == IF result = None THEN << >> ELSE result[1].accounts

\* The documents of the balance family: one account with tier-1 nodes (at
\* most MaxTierNodes), tier-2 and tier-3 nodes and a generic balance field.
Tier1Texts ==
    { << "1", "0", "0", "0" >>, << "-", "1", "0", "0" >>, << "0", ".", "3", "0" >>,
      << "-", "0", ".", "3", "0" >>, << "x" >> }

Tier2Lists ==
    { << >>, << << "2", "0", "0" >> >>, << << "-", "3", "0", "0" >> >>,
      << << "0", ".", "2", "0" >> >> }

Tier3Lists == { << >>, << << "7", "0" >> >>, << << "-", "5" >> >> }

GenericTexts == { << >>, << "5", "0", "0", "0" >> }

BalanceDoc(t1, t2, t3, gen) ==
    Mimshak(<< Account(
        << Elem("BlockItrot", [ i \in 1..Len(t1) |-> PerutYitrot(<< >>, t1[i]) ]) >>
        \o [ i \in 1..Len(t2) |->
               Elem("PerutMasluleiHashkaa", Field("SCHUM-TZVIRA-BAMASLUL", t2[i])) ]
        \o [ i \in 1..Len(t3) |->
               Elem("PerutYitrotLesofShanaKodemet", Field("YITRAT-SOF-SHANA", t3[i])) ]
        \o Field("SCHUM-CHISACHON", gen)) >>)

DocsBalance ==
    { BalanceDoc(t1, t2, t3, gen) :
        t1 \in SeqsUpTo(Tier1Texts, MaxTierNodes), t2 \in Tier2Lists,
        t3 \in Tier3Lists, gen \in GenericTexts }

\* The documents of the contribution family: one account with per-period
\* nodes (at most MaxPeriodNodes) and per-track nodes.
PeriodNodes ==
    { << rekiv, techulat, << "5", "0", "0" >> >> :
        rekiv \in { << "2" >>, << "3" >>, << "5" >> },
        techulat \in { << "1" >>, << "2" >>, << "1", "3" >>, << "4" >> } }
    \cup { << << "2" >>, << "2" >>, << "x" >> >> }

YitrotLists ==
    { << >>,
      << << << "2" >>, << "3", "0", "0" >> >> >>,
      << << << "3" >>, << "3", "0", "0" >> >> >>,
      << << << "2" >>, << "3", "0", "0" >> >>, << << "3" >>, << "4", "0" >> >> >>,
      << << << "6" >>, << "3", "0", "0" >> >> >>,
      << << << >>, << "3", "0", "0" >> >> >>,
      << << << "2" >>, << "x" >> >> >> }

TagmulDoc(ps, ys) ==
    Mimshak(<< Account(<<
        Elem("BlockItrot",
             [ i \in 1..Len(ys) |-> PerutYitrot(ys[i][1], ys[i][2]) ]
             \o [ i \in 1..Len(ps) |->
                    PerutYitraLeTkufa(ps[i][1], ps[i][2], ps[i][3]) ]) >>) >>)

DocsTagmul ==
    { TagmulDoc(ps, ys) :
        ps \in SeqsUpTo(PeriodNodes, MaxPeriodNodes), ys \in YitrotLists }

\* The documents of the product-type family: one account with a plan name, a
\* second plan name and a product code.
PlanNameTexts ==
    { << >>,
      << "qof", "resh", "nun_sofit", " ", "pe", "nun", "samekh", "yod", "he" >>,
      << "bet", "yod", "tet", "vav", "het", " ", "mem", "nun", "he", "lamed", "yod", "mem_sofit" >>,
      << "qof", "vav", "pe", "tav", " ", "gimel", "mem", "lamed" >>,
      << "qof", "resh", "nun_sofit", " ", "he", "shin", "tav", "lamed", "mem", "vav", "tav" >>,
      << "het", "yod", "samekh", "kaf", "vav", "nun_sofit" >>,
      << "S", "a", "v", "i", "n", "g", "s" >>,
      << "x", "y", "z" >> }

SecondNameTexts == { << >>, << "mem", "qof", "pe", "tav" >> }

ProductCodeTexts ==
    { << >>, << "1" >>, << "2" >>, << "3" >>, << "4" >>, << "5" >>, << "6" >> }

ProductDoc(name, second, code) ==
    Mimshak(<< Account(Field("SHEM-TOCHNIT", name) \o Field("TOCHNIT", second)
                       \o Field("SUG-MUTZAR", code)) >>)

DocsProduct ==
    { ProductDoc(name, second, code) :
        name \in PlanNameTexts, second \in SecondNameTexts,
        code \in ProductCodeTexts }

\* The documents of the locator family: every tree of at most MaxLocateNodes
\* nodes, in document order, over four tags.
LocateTags == { "Mimshak", "Heshbon", "MISPAR-HESHBON", "SHEM-TOCHNIT" }

RECURSIVE AncestorIn(_, _, _)
AncestorIn(parents, a, n) ==
    IF n <= 1 THEN FALSE
    ELSE parents[n] = a \/ AncestorIn(parents, a, parents[n])

\* The parent arrays of the trees of n nodes numbered in document order.
Shapes(n) ==
    { parents \in [ 1..n -> 0..(n - 1) ] :
        /\ parents[1] = 0
        /\ \A i \in 2..n :
             /\ parents[i] >= 1
             /\ parents[i] = i - 1 \/ AncestorIn(parents, parents[i], i - 1) }

\* The trees of exactly n nodes, and of at most n nodes.
TreesOf(n) ==
    { [ i \in 1..n |-> Node(tags[i], << >>, parents[i]) ] :
        tags \in [ 1..n -> LocateTags ], parents \in Shapes(n) }

RECURSIVE TreesUpTo(_)
TreesUpTo(n) == IF n = 0 THEN {} ELSE TreesUpTo(n - 1) \cup TreesOf(n)

DocsLocate == TreesUpTo(MaxLocateNodes)

\* The documents of the severance family: one account with at most
\* MaxSeveranceNodes severance fields, over two source tags of one category
\* and the source tag of another.
SeveranceTags ==
    { "ERECH-PIDION-PITZUIM-MAASIK-NOCHECHI", "YITRAT-PITZUIM-MAASIK-NOCHECHI",
      "TZVIRAT-PITZUIM-MAAVIDIM-KODMIM-BERETZEF-KITZBA" }

SeveranceTexts ==
    { << "1", "0", "0", "|", "N", "I", "L", "|", "2", "5", "0" >>,
      << "1", ",", "0", "0", "0" >>, << "a", "b", "c" >>,
      << "2", "5", "0" >>, << "-", "2", "5", "0" >>, << "0" >> }

SeveranceDoc(fs) ==
    Mimshak(<< Account([ i \in 1..Len(fs) |-> Leaf(fs[i][1], fs[i][2]) ]) >>)

DocsSeverance ==
    { SeveranceDoc(fs) :
        fs \in SeqsUpTo(SeveranceTags \X SeveranceTexts, MaxSeveranceNodes) }

\* The documents of the employer family: an account with at most
\* MaxNameNodes employer-name fields over two tags, alone or followed by a
\* sibling account that names one employer.
NameTags == { "SHEM-MAASIK", "SHEM-MESHALEM" }

NameTexts ==
    { << "x" >>, << "y" >>, << "dquote", "x", "dquote" >>, << "'" >> }

SiblingAccounts ==
    { << >>, << Account(<< Leaf("SHEM-MAASIK", << "z" >>) >>) >> }

EmployerDoc(fs, sibling) ==
    Mimshak(<< Account([ i \in 1..Len(fs) |-> Leaf(fs[i][1], fs[i][2]) ]) >>
            \o sibling)

DocsEmployer ==
    { EmployerDoc(fs, sibling) :
        fs \in SeqsUpTo(NameTags \X NameTexts, MaxNameNodes),
        sibling \in SiblingAccounts }

\* The documents of the account-loop family: at most MaxStepAccounts sibling
\* accounts, each naming an employer or carrying a balance.
StepAccounts ==
    { Account(<< Leaf("SHEM-MAASIK", << "x" >>) >>),
      Account(<< Leaf("SHEM-MAASIK", << "z" >>) >>),
      Account(<< Elem("BlockItrot", << PerutYitrot(<< >>, << "1", "0", "0", "0" >>) >>) >>) }

DocsStep == { Mimshak(accts) : accts \in SeqsUpTo(StepAccounts, MaxStepAccounts) }

\* The documents of the person family: a customer element whose seven
\* address fields are each absent, an immediate child, or below a wrapper
\* child; customers with the other personal fields; a document with no
\* customer element.
ADDRESS_TAGS ==
    << "SHEM-RECHOV", "MISPAR-BAIT", "MISPAR-KNISA", "MISPAR-DIRA",
       "SHEM-YISHUV", "MIKUD", "ERETZ" >>

AddressTexts ==
    << << "s" >>, << "5" >>, << "e" >>, << "3" >>, << "c" >>, << "1" >>,
       << "i", "l" >> >>

Placements == { "absent", "child", "nested" }

AddressSubs(place) ==
    Flatten([ i \in 1..Len(ADDRESS_TAGS) |->
                IF place[i] = "absent" THEN << >>
                ELSE IF place[i] = "child"
                THEN << Leaf(ADDRESS_TAGS[i], AddressTexts[i]) >>
                ELSE << Elem("Ktovet", << Leaf(ADDRESS_TAGS[i], AddressTexts[i]) >>) >> ])

PersonFields ==
    { << >>,
      << Leaf("MISPAR-ZIHUY-LAKOACH", << "0", "0", "7" >>),
         Leaf("SHEM-PRATI", << "a" >>), Leaf("SHEM-MISHPACHA", << "b" >>),
         Leaf("TAARICH-LEIDA", << "1", "9", "8", "0", "0", "1", "0", "2" >>),
         Leaf("MIN", << "1" >>) >>,
      << Leaf("MISPAR-ZEHUT", << "0", "0" >>), Leaf("SHEM-MISHPACHA-LAKOACH", << "b" >>),
         Leaf("TAARICH-LEYDA", << "1", "9", "8", "0" >>), Leaf("MIN", << "2" >>),
         Leaf("MISPAR-CELLULARI", << "5" >>) >>,
      << Leaf("MIN", << "3" >>), Leaf("MISPAR-TELEPHONE-KAVI", << "4" >>),
         Elem("Ktovet", << Leaf("E-MAIL", << "m" >>) >>) >> }

DocsPerson ==
    { Mimshak(<< Elem("YeshutLakoach", AddressSubs(place)) >>) :
        place \in [ 1..Len(ADDRESS_TAGS) -> Placements ] }
    \cup { Mimshak(<< Elem(c, fs) >>) :
             c \in { "YeshutLakoach", "Lakoach" }, fs \in PersonFields }
    \cup { Mimshak(<< >>) }

\* The documents of the single-balance family: one account container, at the
\* root or below it, with or without an account number and a plan name, and
\* one balance field with the text 12,500.00 at one of six places.
BALANCE_12500 == << "1", "2", ",", "5", "0", "0", ".", "0", "0" >>

BalancePlaces ==
    { Elem("BlockItrot",
           << Elem("PerutYitrot", << Leaf("TOTAL-CHISACHON-MTZBR", BALANCE_12500) >>) >>),
      Elem("PerutMasluleiHashkaa", << Leaf("SCHUM-TZVIRA-BAMASLUL", BALANCE_12500) >>),
      Elem("PerutYitrotLesofShanaKodemet", << Leaf("YITRAT-SOF-SHANA", BALANCE_12500) >>),
      Leaf("SCHUM-CHISACHON", BALANCE_12500),
      Elem("Yitrot", << Leaf("SCHUM-CHISACHON", BALANCE_12500) >>),
      Elem("Yitrot", << Leaf("TOTAL-CHISACHON-MTZBR", BALANCE_12500) >>) }

AccountNumbers == { << >>, << "7" >>, << "1", "2", "3", "4", "5", "6" >> }

SingleAccount(number, name, place) ==
    Elem("HeshbonOPolisa",
         Field("MISPAR-POLISA-O-HESHBON", number) \o Field("SHEM-TOCHNIT", name)
         \o << place >>)

DocsSingle ==
    LET containers == { SingleAccount(number, name, place) :
                          number \in AccountNumbers,
                          name \in { << >>, << "x", "y", "z" >> },
                          place \in BalancePlaces }
    IN  containers \cup { Mimshak(<< c >>) : c \in containers }

\* The documents of the generic-balance family: an account with at most
\* MaxGenericNodes balance-like fields over three tags, as direct children
\* or (with the text 1,000) below a wrapper; without a tier-1 node, with one
\* whose negative total makes tier 1 fall through, or with one whose total
\* lies within the tolerance below zero. An account with at most one field
\* also comes without its account number, so that the subtree may hold no
\* number at all.
GenericTags == { "SCHUM-CHISACHON", "TOTAL-CHISACHON-MTZBR", "YITRAT-SOF-SHANA" }

GenericFieldTexts ==
    { << "0" >>, << "-", "5" >>, << "x" >>, << "3", "0", "0" >>,
      << "1", ",", "0", "0", "0" >> }

GenericFields ==
    { Leaf(tag, text) : tag \in GenericTags, text \in GenericFieldTexts }
    \cup { Elem("Yitrot", << Leaf(tag, << "1", ",", "0", "0", "0" >>) >>) :
             tag \in GenericTags }

TierOneNodes ==
    { << >>,
      << Elem("BlockItrot", << PerutYitrot(<< >>, << "-", "1", "0", "0" >>) >>) >>,
      << Elem("BlockItrot", << PerutYitrot(<< >>, << "-", "0", ".", "3", "0" >>) >>) >> }

DocsGeneric ==
    { Mimshak(<< Account(tier \o fs) >>) :
        tier \in TierOneNodes, fs \in SeqsUpTo(GenericFields, MaxGenericNodes) }
    \cup { Mimshak(<< Elem("HeshbonOPolisa", tier \o fs) >>) :
             tier \in TierOneNodes, fs \in SeqsUpTo(GenericFields, 1) }

\* The documents of the sibling family: at most MaxSiblingAccounts accounts,
\* each with or without a plan name and an employer name (one of them blank),
\* below a root that carries or does not carry an employer name of its own.
SiblingPlans ==
    { << >>,
      << "qof", "resh", "nun_sofit", " ", "pe", "nun", "samekh", "yod", "he" >>,
      << "qof", "vav", "pe", "tav", " ", "gimel", "mem", "lamed" >> }

SiblingNames == { << >>, << "x" >>, << "z" >>, << " " >> }

SiblingAccount(plan, name) ==
    Account(Field("SHEM-TOCHNIT", plan) \o Field("SHEM-MAASIK", name))

SiblingChoices ==
    { SiblingAccount(plan, name) : plan \in SiblingPlans, name \in SiblingNames }

DocsSibling ==
    { Mimshak(top \o accts) :
        top \in { << >>, << Leaf("SHEM-MAASIK", << "y" >>) >> },
        accts \in SeqsUpTo(SiblingChoices, MaxSiblingAccounts) }

\* ------------------------------------------------- the other specifications

LoadBalance == \E doc \in DocsBalance : LoadFile(doc)

NextBalance == LoadBalance \/ LoadFails \/ ExtractData \/ NewProcessor

SpecBalance == Init /\ [][NextBalance]_vars

LoadTagmul == \E doc \in DocsTagmul : LoadFile(doc)

NextTagmul == LoadTagmul \/ LoadFails \/ ExtractData \/ NewProcessor

SpecTagmul == Init /\ [][NextTagmul]_vars

LoadProduct == \E doc \in DocsProduct : LoadFile(doc)

NextProduct == LoadProduct \/ LoadFails \/ ExtractData \/ NewProcessor

SpecProduct == Init /\ [][NextProduct]_vars

LoadLocate == \E doc \in DocsLocate : LoadFile(doc)

NextLocate == LoadLocate \/ LoadFails \/ ExtractData \/ NewProcessor

SpecLocate == Init /\ [][NextLocate]_vars

LoadSeverance == \E doc \in DocsSeverance : LoadFile(doc)

NextSeverance == LoadSeverance \/ LoadFails \/ ExtractData \/ NewProcessor

SpecSeverance == Init /\ [][NextSeverance]_vars

LoadEmployer == \E doc \in DocsEmployer : LoadFile(doc)

NextEmployer == LoadEmployer \/ LoadFails \/ ExtractData \/ NewProcessor

SpecEmployer == Init /\ [][NextEmployer]_vars

LoadPerson == \E doc \in DocsPerson : LoadFile(doc)

NextPerson == LoadPerson \/ LoadFails \/ ExtractData \/ NewProcessor

SpecPerson == Init /\ [][NextPerson]_vars

LoadSingle == \E doc \in DocsSingle : LoadFile(doc)

NextSingle == LoadSingle \/ LoadFails \/ ExtractData \/ NewProcessor

SpecSingle == Init /\ [][NextSingle]_vars

LoadSibling == \E doc \in DocsSibling : LoadFile(doc)

NextSibling == LoadSibling \/ LoadFails \/ ExtractData \/ NewProcessor

SpecSibling == Init /\ [][NextSibling]_vars

LoadGeneric == \E doc \in DocsGeneric : LoadFile(doc)

NextGeneric == LoadGeneric \/ LoadFails \/ ExtractData \/ NewProcessor

SpecGeneric == Init /\ [][NextGeneric]_vars

\* ---------------------------------------------------------- the account loop

\* The body of the loop over account_nodes, one account per step. The loop
\* takes the located accounts in list order; a step is enabled for any
\* account not yet extracted, so that every order of extraction is a
\* behaviour. accounts holds the records appended so far, each with the
\* position of its node among the located nodes.
Located == LocateAccounts(root).nodes

Extracted == { accounts[k].index : k \in 1..Len(accounts) }

\* A variant of the loop body that empties the texts of the subtree it read.
TreeCleared(doc, n) ==
    [ j \in 1..Len(doc) |->
        IF j = n \/ IsAncestor(doc, n, j)
        THEN [ doc[j] EXCEPT !.text = << >> ] ELSE doc[j] ]

\* self.root after the loop body ran for one account: the body assigns no
\* attribute of the processor and changes no element of the tree.
TreeAfterAccount(doc, n) == doc

\* _extract_data up to the loop: the person details are read and the account
\* nodes located; accounts = [].
StartExtract ==
    /\ pc = "loaded"
    /\ pc' = "extracting"
    /\ accounts' = << >>
    /\ UNCHANGED << root, result, results, files >>

\* One pass of the loop body: accounts.append(acc_data).
ExtractOne ==
    /\ pc = "extracting"
    /\ \E i \in (1..Len(Located)) \ Extracted :
         /\ accounts' = Append(accounts,
                [ index |-> i, record |-> ExtractAccount(root, Located[i]) ])
         /\ root' = TreeAfterAccount(root, Located[i])
    /\ UNCHANGED << result, pc, results, files >>

\* An exception raised inside the loop body: nothing in the loop catches it,
\* it reaches the handler of process, which logs it and returns None.
AccountRaises ==
    /\ pc = "extracting"
    /\ (1..Len(Located)) \ Extracted # {}
    /\ result' = None
    /\ pc' = "done"
    /\ UNCHANGED << root, accounts, results, files >>

\* The loop is over: _extract_data returns the records in the order appended.
FinishExtract ==
    /\ pc = "extracting"
    /\ (1..Len(Located)) \ Extracted = {}
    /\ result' = Some([ tier |-> LocateAccounts(root).tier,
                         person_details |-> _extract_person_details(root),
                         accounts |-> [ k \in 1..Len(accounts) |-> accounts[k].record ] ])
    /\ pc' = "done"
    /\ UNCHANGED << root, accounts, results, files >>

LoadStep == \E doc \in DocsStep : LoadFile(doc)

NextStep ==
    \/ LoadStep
    \/ LoadFails
    \/ StartExtract
    \/ ExtractOne
    \/ AccountRaises
    \/ FinishExtract
    \/ NewProcessor

SpecStep == Init /\ [][NextStep]_vars

\* ------------------------------------------------------- process_directory

\* The files of a batch: the documents with at most one account of the
\* account-loop family, or a file that cannot be read or parsed.
DocsBatch == { Mimshak(accts) : accts \in SeqsUpTo(StepAccounts, 1) }

\* A variant that appends whatever process returned.
AppendAlways(list, r) == Append(list, r)

\* if result: results.append(result)
AppendResult(list, r) == IF r = None THEN list ELSE Append(list, r[1])

\* process_directory, one pass of its loop after process returned: the
\* result is appended when there is one and the loop goes on to the next
\* file with a new processor. files records the tree of each file processed
\* (empty for a file that did not load).
NextFile ==
    /\ pc = "done"
    /\ Len(files) < MaxFiles
    /\ results' = AppendResult(results, result)
    /\ files' = Append(files, root)
    /\ root' = << >>
    /\ result' = None
    /\ pc' = "new"
    /\ UNCHANGED accounts

LoadBatch == \E doc \in DocsBatch : LoadFile(doc)

NextBatch == LoadBatch \/ LoadFails \/ ExtractData \/ NextFile

SpecBatch == Init /\ [][NextBatch]_vars

\* ------------------------------------------------------------------ claims

Done == pc = "done" /\ result # None

AccountIndexes == 1..Len(Accounts)

\* C1: for every account record, with the component total taken as the
\* contribution total plus the severance total, the stored discrepancy is
\* exactly 0 whenever |balance - component total| <= 0.5 and is exactly
\* balance - component total otherwise.
C1_Discrepancy ==
    \A i \in AccountIndexes :
        LET a == Accounts[i]
            componentTotal == SumValues(a.tagmul_periods)
                              + SumValues(a.severance_components)
            diff == a.balance - componentTotal
        IN  /\ a.component_total = componentTotal
            /\ (diff >= 0 - (Scale \div 2) /\ diff <= Scale \div 2)
                 => a.balance_diff = 0
            /\ (diff < 0 - (Scale \div 2) \/ diff > Scale \div 2)
                 => a.balance_diff = diff

\* A record whose balance and component total differ by exactly the
\* tolerance, stored as a discrepancy of 0.
C1_Witness ==
    \E i \in AccountIndexes :
        /\ Accounts[i].component_total - Accounts[i].balance = Scale \div 2
        /\ Accounts[i].component_total > Scale
        /\ Accounts[i].balance_diff = 0

\* C2: for every account and every value of a tier's total, the first of
\* tiers 1..3 that summed at least one node is the tier whose return
\* statement yields the balance; no later tier is consulted.
C2_FirstTierWins ==
    \A i \in AccountIndexes : \A t \in 1..3 :
        ( /\ TierSum(root, Accounts[i].node, t).count > 0
          /\ \A u \in 1..(t - 1) : TierSum(root, Accounts[i].node, u).count = 0 )
        => Accounts[i].balance_tier = t

\* C3: when the first tier of 1..3 that summed at least one node has total
\* T, the balance is T if T > 0.5 and exactly 0 if |T| <= 0.5, and it is
\* that tier's return statement that yields it, whatever the later tiers
\* hold.
C3_TierTotal ==
    \A i \in AccountIndexes : \A t \in 1..3 :
        LET a == Accounts[i]
            T == TierSum(root, a.node, t).total
        IN  ( /\ TierSum(root, a.node, t).count > 0
              /\ \A u \in 1..(t - 1) : TierSum(root, a.node, u).count = 0 )
            => /\ T > Scale \div 2 => a.balance = T /\ a.balance_tier = t
               /\ (T >= 0 - (Scale \div 2) /\ T <= Scale \div 2)
                    => a.balance = 0 /\ a.balance_tier = t

\* A tier-1 total of 1000 beside a generic field of 5000 gives 1000.
C3_Witness ==
    \E i \in AccountIndexes :
        LET a == Accounts[i]
        IN  /\ TierSum(root, a.node, 1) = [ total |-> 1000 * Scale, count |-> 1 ]
            /\ _get_float(root, a.node, "SCHUM-CHISACHON") = Some(5000 * Scale)
            /\ a.balance = 1000 * Scale

\* The labels the two classifiers give for an account.
CodeLabel(i) == CodeType(root, Accounts[i].node)

NameLabel(i) == NameType(root, Accounts[i].node)

\* Whether the override rule applies to a pair of labels.
OverrideApplies(code_label, name_label) ==
    /\ code_label \in { "polisat bituach chaim meshulav chisachon",
                        "polisat bituach chaim", "polisat chisachon tahor" }
    /\ name_label \in { "keren pensia", "keren hishtalmut" }

\* C4: when the code-based and the name-based label both resolve and differ,
\* the code-based label is one of the three insurance/savings-policy labels
\* and the name-based label is pension-fund or study-fund, the product type
\* is the name-based label.
C4_Override ==
    \A i \in AccountIndexes :
        ( /\ CodeLabel(i) # "" /\ NameLabel(i) # ""
          /\ CodeLabel(i) # NameLabel(i)
          /\ OverrideApplies(CodeLabel(i), NameLabel(i)) )
        => Accounts[i].product_type = [ label |-> NameLabel(i), raw |-> << >> ]

\* Product code "1" with a plan name containing the word for pension gives
\* the pension-fund label.
C4_Witness ==
    \E i \in AccountIndexes :
        /\ _get_text(root, Accounts[i].node, "SUG-MUTZAR") = << "1" >>
        /\ Contains(_get_text(root, Accounts[i].node, "SHEM-TOCHNIT"), KW_PENSIA)
        /\ Accounts[i].product_type.label = "keren pensia"

\* C5: when the code-based and the name-based label both resolve and differ
\* and the override rule does not apply, the product type is the code-based
\* label (product code "4" with a managers'-insurance plan name gives the
\* pension-fund label).
C5_DefaultRule ==
    \A i \in AccountIndexes :
        ( /\ CodeLabel(i) # "" /\ NameLabel(i) # ""
          /\ CodeLabel(i) # NameLabel(i)
          /\ ~OverrideApplies(CodeLabel(i), NameLabel(i)) )
        => Accounts[i].product_type = [ label |-> CodeLabel(i), raw |-> << >> ]

\* The values of a dict.
Values(d) == { d[k] : k \in DOMAIN d }

\* C6: every numeric field of every account record (balance, each
\* contribution bucket, each severance category, the three totals and the
\* discrepancy) is non-negative.
C6_NonNegative ==
    \A i \in AccountIndexes :
        LET a == Accounts[i]
        IN  /\ a.balance >= 0
            /\ \A v \in Values(a.tagmul_periods) : v >= 0
            /\ \A v \in Values(a.severance_components) : v >= 0
            /\ a.tagmul_total >= 0
            /\ a.severance_total >= 0
            /\ a.component_total >= 0
            /\ a.balance_diff >= 0

\* The nodes the records of the result were extracted from.
AccountNodes == { Accounts[i].node : i \in AccountIndexes }

ContainerNames == { ACCOUNT_ELEMENTS[k] : k \in 1..Len(ACCOUNT_ELEMENTS) }

\* The elements of the document named as an account container, the root
\* included, and those below the root.
ContainerElements == { j \in 1..Len(root) : root[j].tag \in ContainerNames }

ContainerElementsBelowRoot == ContainerElements \ { 1 }

\* The elements with an account-identifying immediate child.
StructuralElements ==
    { j \in 1..Len(root) :
        \E k \in 1..Len(root) :
            /\ root[k].parent = j
            /\ root[k].tag \in { "MISPAR-POLISA-O-HESHBON", "MISPAR-HESHBON",
                                 "MISPAR-POLISA", "SHEM-YATZRAN", "YATZRAN",
                                 "SHEM-TOCHNIT", "TOCHNIT" } }

\* The account nodes come from one tier: the container elements cs if there
\* are any, else the structural elements if there are any, else at most the
\* root; and every node gives one record.
OneTier(cs) ==
    /\ Cardinality(AccountNodes) = Len(Accounts)
    /\ cs # {} => AccountNodes = cs
    /\ (cs = {} /\ StructuralElements # {}) => AccountNodes = StructuralElements
    /\ (cs = {} /\ StructuralElements = {}) => AccountNodes \subseteq { 1 }

C8_RootFallback ==
    ( /\ Done
      /\ ContainerElementsBelowRoot = {}
      /\ StructuralElements = {}
      /\ \E j \in 1..Len(root) :
           root[j].tag \in { "MISPAR-POLISA-O-HESHBON", "MISPAR-HESHBON",
                             "MISPAR-POLISA" } )
    => Len(Accounts) = 1 /\ Accounts[1].node = 1

\* The per-period nodes of an account: the PerutYitraLeTkufa elements below
\* a BlockItrot element of the account.
PeriodNodesOf(n) ==
    { j \in 1..Len(root) :
        /\ root[j].tag = "PerutYitraLeTkufa"
        /\ \E b \in 1..Len(root) :
             /\ root[b].tag = "BlockItrot"
             /\ IsAncestor(root, n, b)
             /\ IsAncestor(root, b, j) }

\* The bucket the role table and the period table give a per-period node,
\* or << >> when its role code or its period code is in neither table or
\* its amount does not parse.
BucketOf(j) ==
    LET rekiv == _get_text(root, j, "REKIV-ITRA-LETKUFA")
        techulat == _get_text(root, j, "KOD-TECHULAT-SHICHVA")
        role == IF rekiv \in { << "2" >>, << "8" >> } THEN "employee"
                ELSE IF rekiv \in { << "3" >>, << "9" >> } THEN "employer"
                ELSE ""
        period == IF techulat = << "1" >> THEN "before_2000"
                  ELSE IF techulat = << "2" >> THEN "after_2000"
                  ELSE IF techulat \in { << "7" >>, << "9" >>, << "1", "3" >> }
                  THEN "after_2008_non_paying"
                  ELSE ""
    IN  IF role # "" /\ period # ""
           /\ _get_float(root, j, "SACH-ITRA-LESHICHVA-BESHACH") # None
        THEN << role, period >> ELSE << >>

\* The sum of the amounts of a set of per-period nodes.
RECURSIVE AmountSum(_)
AmountSum(S) ==
    IF S = {} THEN 0
    ELSE LET j == CHOOSE x \in S : TRUE
         IN  _get_float(root, j, "SACH-ITRA-LESHICHVA-BESHACH")[1]
             + AmountSum(S \ { j })

SixColumns ==
    { "tagmulei oved ad 2000", "tagmulei oved acharei 2000",
      "tagmulei oved acharei 2008 (kitzba lo meshalemet)",
      "tagmulei maavid ad 2000", "tagmulei maavid acharei 2000",
      "tagmulei maavid acharei 2008 (kitzba lo meshalemet)" }

\* C9: after the primary pass every bucket holds exactly the sum of the
\* amounts of the per-period nodes whose role code and period code map to
\* it (a node with an unmapped code is in no bucket), a role is marked as
\* having period data exactly when a node was booked to it, and the output
\* has only keys of the six fixed columns and no zero value.
C9_PrimaryBuckets ==
    \A i \in AccountIndexes :
        LET a == Accounts[i]
            nodes == PeriodNodesOf(a.node)
        IN  /\ \A key \in { "employee", "employer" }
                        \X { "before_2000", "after_2000", "after_2008_non_paying" } :
                 a.primary.totals[key]
                   = AmountSum({ j \in nodes : BucketOf(j) = key })
            /\ \A r \in { "employee", "employer" } :
                 a.primary.has[r]
                   <=> \E j \in nodes : BucketOf(j) # << >> /\ BucketOf(j)[1] = r
            /\ DOMAIN a.tagmul_periods \subseteq SixColumns
            /\ \A c \in DOMAIN a.tagmul_periods : a.tagmul_periods[c] # 0

\* An employer node of period code "2" and amount 500 beside a node of the
\* unmapped role code "5": the bucket (employer, after-2000) is 500 and it
\* is the only column of the output.
C9_Witness ==
    \E i \in AccountIndexes :
        LET a == Accounts[i]
            nodes == PeriodNodesOf(a.node)
        IN  /\ \E j \in nodes : _get_text(root, j, "REKIV-ITRA-LETKUFA") = << "5" >>
            /\ \E j \in nodes : BucketOf(j) = << "employer", "after_2000" >>
            /\ a.primary.totals[<< "employer", "after_2000" >>] = 500 * Scale
            /\ a.tagmul_periods = [ c \in { "tagmulei maavid acharei 2000" } |-> 500 * Scale ]

\* The final total of a bucket: its value in the output, 0 when omitted.
FinalTotal(a, key) ==
    IF TAGMUL_PERIOD_COLUMNS[key] \in DOMAIN a.tagmul_periods
    THEN a.tagmul_periods[TAGMUL_PERIOD_COLUMNS[key]] ELSE 0

\* C10: the secondary pass leaves unchanged every bucket of a role that
\* received a primary-pass amount and the before-2000 and after-2008 buckets
\* of every role; it can add only to the after-2000 bucket of a role that
\* received nothing, so it changes nothing when both roles received one.
C10_SecondaryFrame ==
    \A i \in AccountIndexes :
        LET a == Accounts[i]
        IN  \A key \in { "employee", "employer" }
                       \X { "before_2000", "after_2000", "after_2008_non_paying" } :
                (a.primary.has[key[1]] \/ key[2] # "after_2000")
                => FinalTotal(a, key) = a.primary.totals[key]

\* The employer has period data and the employee has none, the per-track
\* nodes carry an employee code and an employer code: the employee's
\* after-2000 bucket grows by the employee amount (300) and the employer's
\* buckets stay as the primary pass left them.
C10_Witness ==
    \E i \in AccountIndexes :
        LET a == Accounts[i]
        IN  /\ a.primary.has["employer"] /\ ~a.primary.has["employee"]
            /\ \E j \in 1..Len(root) :
                 /\ root[j].tag = "PerutYitrot" /\ IsAncestor(root, a.node, j)
                 /\ _get_text(root, j, "KOD-SUG-HAFRASHA") = << "3" >>
                 /\ _get_float(root, j, "TOTAL-CHISACHON-MTZBR") # None
            /\ a.primary.totals[<< "employee", "after_2000" >>] = 0
            /\ FinalTotal(a, << "employee", "after_2000" >>) = 300 * Scale
            /\ FinalTotal(a, << "employer", "after_2000" >>)
                 = a.primary.totals[<< "employer", "after_2000" >>]

\* ------------------------------------------------------------ C11

\* The segments of a text: the maximal runs without "|", as index pairs
\* (first, last); an empty segment has last = first - 1.
Bars(s) == { i \in 1..Len(s) : s[i] = "|" }

Segments(s) ==
    { p \in (1..(Len(s) + 1)) \X (0..Len(s)) :
        /\ p[2] >= p[1] - 1
        /\ p[1] = 1 \/ (p[1] - 1) \in Bars(s)
        /\ p[2] = Len(s) \/ (p[2] + 1) \in Bars(s)
        /\ \A k \in p[1]..p[2] : k \notin Bars(s) }

\* What one segment contributes: its number, thousands separators removed,
\* or 0 when it is not a number.
SegmentValue(seg) ==
    LET v == PyFloat(RemoveChar(seg, ","))
    IN  IF v = None THEN 0 ELSE v[1]

RECURSIVE SegmentSum(_, _)
SegmentSum(s, segs) ==
    IF segs = {} THEN 0
    ELSE LET p == CHOOSE q \in segs : TRUE
         IN  SegmentValue(SubSeq(s, p[1], p[2])) + SegmentSum(s, segs \ { p })

RECURSIVE TextsSum(_)
TextsSum(texts) ==
    IF texts = {} THEN 0
    ELSE LET t == CHOOSE x \in texts : TRUE
         IN  SegmentSum(t, Segments(t)) + TextsSum(texts \ { t })

\* The distinct non-blank texts a tag carries in the subtree of node n.
TextsOfTag(n, tag) ==
    { Strip(root[j].text) :
        j \in { k \in 1..Len(root) :
                  /\ k = n \/ IsAncestor(root, n, k)
                  /\ root[k].tag = tag
                  /\ Strip(root[k].text) # << >> } }

CategorySum(n, c) ==
    LET tags == SEVERANCE_COLUMN_TAGS[c]
    IN  TextsSum(TextsOfTag(n, tags[1]))
        + (IF Len(tags) = 2 THEN TextsSum(TextsOfTag(n, tags[2])) ELSE 0)

Text100NIL250 == << "1", "0", "0", "|", "N", "I", "L", "|", "2", "5", "0" >>

\* C11: _safe_sum_values adds up the numeric "|"-separated segments of a
\* captured string, each parsed on its own with thousands separators
\* removed, and empty, sentinel and non-numeric segments add 0 ("100|NIL|250"
\* gives 350.0 and "" gives 0.0); the severance map of an account has a
\* category exactly when the sum over the category's source tags is nonzero,
\* holds that sum for it, and has no key outside the five fixed categories.
C11_SegmentSum ==
    /\ _safe_sum_values(Some(Text100NIL250)) = 350 * Scale
    /\ _safe_sum_values(Some(<< >>)) = 0
    /\ Done =>
         \A i \in AccountIndexes :
           LET a == Accounts[i]
               cols == 1..Len(SEVERANCE_COLUMNS)
           IN  /\ DOMAIN a.severance_components
                    \subseteq { SEVERANCE_COLUMNS[c] : c \in cols }
               /\ \A c \in cols :
                    LET total == CategorySum(a.node, c)
                        name == SEVERANCE_COLUMNS[c]
                    IN  IF total = 0
                        THEN name \notin DOMAIN a.severance_components
                        ELSE /\ name \in DOMAIN a.severance_components
                             /\ a.severance_components[name] = total

\* An account whose only severance field reads "100|NIL|250", with 350.0 in
\* the category of that field.
C11_Witness ==
    /\ Done
    /\ \E i \in AccountIndexes :
         /\ TextsOfTag(Accounts[i].node, SEVERANCE_COLUMN_TAGS[1][1])
              = { Text100NIL250 }
         /\ TextsOfTag(Accounts[i].node, SEVERANCE_COLUMN_TAGS[1][2]) = {}
         /\ Accounts[i].severance_components
              = (SEVERANCE_COLUMNS[1] :> 350 * Scale)

\* ------------------------------------------------------------ C12

\* The matches of a tag as the collector meets them: the non-blank texts
\* below the start node and, with ancestor inclusion, below each ancestor.
Matches(n, tag, include_parents) == ClimbValues(root, n, tag, include_parents)

FirstIndex(seq, v) ==
    CHOOSE i \in 1..Len(seq) : seq[i] = v /\ \A j \in 1..(i - 1) : seq[j] # v

\* out lists every value of seq once, in order of first occurrence.
FirstOccurrences(out, seq) ==
    /\ \A a, b \in 1..Len(out) : a # b => out[a] # out[b]
    /\ { out[a] : a \in 1..Len(out) } = { seq[k] : k \in 1..Len(seq) }
    /\ \A a, b \in 1..Len(out) :
         a < b => FirstIndex(seq, out[a]) < FirstIndex(seq, out[b])

\* C12: for every account node and employer tag, with and without ancestor
\* inclusion, _collect_tag_values returns each matched value once, in order
\* of first occurrence among the matches, and de-duplicating the returned
\* list again leaves it unchanged.
C12_CollectUnique ==
    Done =>
      \A i \in AccountIndexes, tag \in NameTags, inc \in BOOLEAN :
        LET out == _collect_tag_values(root, Accounts[i].node, tag, inc)
        IN  /\ FirstOccurrences(out, Matches(Accounts[i].node, tag, inc))
            /\ Unique(out) = out

\* An account whose matches with ancestor inclusion begin A, B, A and go on
\* to a third value C, and for which A, B, C is returned.
C12_Witness ==
    /\ Done
    /\ \E i \in AccountIndexes, tag \in NameTags :
         LET seq == Matches(Accounts[i].node, tag, TRUE)
         IN  /\ Len(seq) >= 4
             /\ seq[1] = seq[3] /\ seq[1] # seq[2]
             /\ \E k \in 4..Len(seq) :
                  /\ seq[k] \notin { seq[1], seq[2] }
                  /\ _collect_tag_values(root, Accounts[i].node, tag, TRUE)
                       = << seq[1], seq[2], seq[k] >>

\* ------------------------------------------------------------ C16

\* The normalized employer values in the order the collector meets them:
\* the tags in their fixed order, the values of a tag in collection order.
NameCandidates(n) ==
    LET all == Flatten([ t \in 1..Len(EMPLOYER_NAME_TAGS) |->
                           _collect_tag_values(root, n, EMPLOYER_NAME_TAGS[t], TRUE) ])
        clean == [ k \in 1..Len(all) |-> CleanName(all[k]) ]
    IN  SelectSeq(clean, LAMBDA v : v # << >>)

\* C16: the employer names of an account hold no empty entry and no two
\* equal entries, the entries being the normalized values; each normalized
\* value met under any employer tag appears once, whatever tag carried it,
\* in first-seen order over the tags in their fixed order.
C16_EmployerNames ==
    Done =>
      \A i \in AccountIndexes :
        LET names == Accounts[i].employer_names
        IN  /\ \A k \in 1..Len(names) : names[k] # << >>
            /\ FirstOccurrences(names, NameCandidates(Accounts[i].node))

\* An account where one tag carries x and a later tag carries "x" in quotes,
\* among other values, and x is listed once.
C16_Witness ==
    /\ Done
    /\ \E i \in AccountIndexes :
         LET n == Accounts[i].node
         IN  /\ << "x" >> \in { root[j].text : j \in { k \in 1..Len(root) :
                    root[k].parent = n /\ root[k].tag = "SHEM-MAASIK" } }
             /\ << "dquote", "x", "dquote" >> \in { root[j].text :
                    j \in { k \in 1..Len(root) :
                              root[k].parent = n /\ root[k].tag = "SHEM-MESHALEM" } }
             /\ Len(Accounts[i].employer_names) >= 2
             /\ Accounts[i].employer_names[1] = << "x" >>

\* ------------------------------------------------------------ C13

\* The loop is running or has ended on a loaded document.
InLoop == pc = "extracting" \/ (pc = "done" /\ root # << >>)

\* C13: when process has ended on a loaded document, the result holds the
\* record of every account that was extracted, whether or not the extraction
\* of another account of the document raised.
C13_SiblingsKept ==
    (pc = "done" /\ root # << >>) =>
      \A k \in 1..Len(accounts) :
        /\ result # None
        /\ \E j \in AccountIndexes : Accounts[j] = accounts[k].record

\* ------------------------------------------------------------ C19

LoadedFiles == SelectSeq(files, LAMBDA f : f # << >>)

\* C14: process ends with no result on a file that did not load; the list
\* of process_directory holds exactly one result per file that loaded, in
\* the order processed, and none for a file that did not.
C14_Batch ==
    /\ (pc = "done" /\ root = << >>) => result = None
    /\ Len(results) = Len(LoadedFiles)
    /\ \A k \in 1..Len(results) :
         k <= Len(LoadedFiles) => results[k] = _extract_data(LoadedFiles[k])

\* A batch whose second file did not load and whose first and third did.
C14_Witness ==
    /\ Len(files) = 3
    /\ files[1] # << >> /\ files[2] = << >> /\ files[3] # << >>
    /\ Len(results) = 2

\* ------------------------------------------------------------ C15

\* The keys of an account record.
AccountKeys ==
    { "node", "balance", "balance_tier", "primary", "tagmul_periods",
      "severance_components", "tagmul_total", "severance_total",
      "component_total", "balance_diff", "product_type", "account_number",
      "plan_name", "managing_company", "managing_company_code", "balance_date",
      "start_date", "employer_history", "managing_company_fields",
      "plan_type_fields", "balance_related_fields", "employer_names" }

CategoricalTexts ==
    { "account_number", "plan_name", "managing_company",
      "managing_company_code", "balance_date" }

\* The product type as the string the record carries.
ProductTypeIsEmpty(i) ==
    Accounts[i].product_type.label = "" /\ Accounts[i].product_type.raw = << >>

\* C15: every account record has the same keys, no categorical field is
\* empty, and a field the document gives no value for (here the plan name
\* and the product type) holds the "unknown" sentinel.
C15_Defaults ==
    Done =>
      \A i \in AccountIndexes :
        /\ DOMAIN Accounts[i] = AccountKeys
        /\ \A f \in CategoricalTexts : Accounts[i][f] # << >>
        /\ ~ProductTypeIsEmpty(i)
        /\ PlanNames(root, Accounts[i].node) = << >> =>
             Accounts[i].plan_name = UNKNOWN
        /\ (PlanNames(root, Accounts[i].node) = << >>
             /\ ProductCodes(root, Accounts[i].node) = << >>) =>
             Accounts[i].product_type = [ label |-> "", raw |-> UNKNOWN ]

\* ------------------------------------------------------------ C17

\* The customer element of the loaded document and the composed address
\* (empty when the details carry none).
Customer == CustomerElem(root)[1]

Address ==
    IF "full_address" \in DOMAIN result[1].person_details
    THEN result[1].person_details["full_address"] ELSE << >>

\* The k-th address field is somewhere in the customer subtree / is an
\* immediate child of the customer element, with a text.
InSubtree(k) ==
    \E j \in 1..Len(root) :
      /\ IsAncestor(root, Customer, j)
      /\ root[j].tag = ADDRESS_TAGS[k] /\ Strip(root[j].text) # << >>

IsChild(k) ==
    \E j \in 1..Len(root) :
      /\ root[j].parent = Customer
      /\ root[j].tag = ADDRESS_TAGS[k] /\ Strip(root[j].text) # << >>

\* The documents whose customer carries address fields with the texts of the
\* person family, each field at most once.
AddressCase ==
    /\ Done
    /\ CustomerElem(root) # None
    /\ \A j \in 1..Len(root), k \in 1..Len(ADDRESS_TAGS) :
         root[j].tag = ADDRESS_TAGS[k] => root[j].text = AddressTexts[k]

\* The place where a text first occurs in the address (0: nowhere).
Pos(text) ==
    LET at == { i \in 1..Len(Address) :
                  i + Len(text) - 1 <= Len(Address)
                  /\ SubSeq(Address, i, i + Len(text) - 1) = text }
    IN  IF at = {} THEN 0 ELSE CHOOSE i \in at : \A j \in at : i <= j

\* The fields the address is composed of: the immediate children, the house,
\* entrance and apartment only next to a street.
Composed(k) == IsChild(k) /\ (k \in 2..4 => IsChild(1))

\* The clause a field contributes, with its label and separator.
Clause(k) ==
    IF k = 1 THEN AddressTexts[k]
    ELSE IF k = 2 THEN << " " >> \o AddressTexts[k]
    ELSE IF k = 3 THEN << ",", " " >> \o KNISA \o << " " >> \o AddressTexts[k]
    ELSE IF k = 4 THEN << ",", " " >> \o DIRA \o << " " >> \o AddressTexts[k]
    ELSE IF k = 6 THEN MIKUD \o << " " >> \o AddressTexts[k]
    ELSE AddressTexts[k]

\* C17 as stated: each address field contributes to the address if and only
\* if it is present in the customer subtree.
C17_AddressIff ==
    AddressCase =>
      \A k \in 1..Len(ADDRESS_TAGS) : Pos(AddressTexts[k]) # 0 <=> InSubtree(k)

\* C17, amended: each address field contributes its clause if and only if
\* it is an immediate child of the customer element with a text and, for the
\* house number, entrance and apartment, the street is one too; the clauses
\* come in the order street, house, entrance, apartment, city, zip, country,
\* the clauses after the first comma-joined.
C17_AddressClauses ==
    AddressCase =>
      /\ \A k \in 1..Len(ADDRESS_TAGS) :
           /\ Pos(AddressTexts[k]) # 0 <=> Composed(k)
           /\ Composed(k) => Pos(Clause(k)) # 0
      /\ \A k, m \in 1..Len(ADDRESS_TAGS) :
           (k < m /\ Composed(k) /\ Composed(m)) =>
             /\ Pos(Clause(k)) < Pos(Clause(m))
             /\ m >= 5 =>
                  SubSeq(Address, Pos(Clause(m)) - 2, Pos(Clause(m)) - 1)
                    = << ",", " " >>
      /\ (\A k \in 1..Len(ADDRESS_TAGS) : IsChild(k)) =>
           Address = Clause(1) \o Clause(2) \o Clause(3) \o Clause(4)
                     \o << ",", " " >> \o Clause(5) \o << ",", " " >> \o Clause(6)
                     \o << ",", " " >> \o Clause(7)

\* A customer with a house number and a city but no street, and a country
\* below a wrapper element: the address is the city alone.
C17_Witness ==
    /\ AddressCase
    /\ IsChild(2) /\ ~IsChild(1) /\ IsChild(5)
    /\ InSubtree(7) /\ ~IsChild(7)
    /\ Address = AddressTexts[5]

\* ------------------------------------------------------------ C18

\* The first non-blank product code collected for an account, stripped.
FirstRawCode(i) ==
    LET codes == SelectSeq(ProductCodes(root, Accounts[i].node),
                           LAMBDA c : Strip(c) # << >>)
    IN  IF codes = << >> THEN << >> ELSE Strip(codes[1])

\* C18: when the two classifiers do not disagree, the product type is the
\* common label if both resolve to it, the one label if only one resolves,
\* and with no label the first plan name collected, else the first
\* non-empty product code, else the empty string.
C18_NoDisagreement ==
    Done =>
      \A i \in AccountIndexes :
        LET names == PlanNames(root, Accounts[i].node)
            type == Accounts[i].product_type
        IN  /\ (CodeLabel(i) # "" /\ CodeLabel(i) = NameLabel(i)) =>
                 type = [ label |-> CodeLabel(i), raw |-> << >> ]
            /\ (CodeLabel(i) # "" /\ NameLabel(i) = "") =>
                 type = [ label |-> CodeLabel(i), raw |-> << >> ]
            /\ (CodeLabel(i) = "" /\ NameLabel(i) # "") =>
                 type = [ label |-> NameLabel(i), raw |-> << >> ]
            /\ (CodeLabel(i) = "" /\ NameLabel(i) = "") =>
                 type = [ label |-> "",
                          raw |-> IF names # << >> THEN names[1]
                                  ELSE FirstRawCode(i) ]

\* An account with the plan name xyz and the product code 6, neither of
\* which resolves: the product type is xyz.
C18_Witness ==
    /\ Done
    /\ \E i \in AccountIndexes :
         /\ _get_text(root, Accounts[i].node, "SHEM-TOCHNIT") = << "x", "y", "z" >>
         /\ _get_text(root, Accounts[i].node, "SUG-MUTZAR") = << "6" >>
         /\ CodeLabel(i) = "" /\ NameLabel(i) = ""
         /\ Accounts[i].product_type = [ label |-> "", raw |-> << "x", "y", "z" >> ]

\* ------------------------------------------------------------ C20

\* C20: a document with one account container whose only balance
\* information is one balance field with the text 12,500.00, and with no
\* severance or contribution detail node, yields exactly one account record,
\* with balance 12500.0, empty contribution and severance maps, component
\* total 0.0 and discrepancy 12500.0.
C20_EndToEnd ==
    (Done /\ root \in DocsSingle) =>
      /\ Len(Accounts) = 1
      /\ Accounts[1].balance = 12500 * Scale
      /\ Accounts[1].tagmul_periods = << >>
      /\ Accounts[1].severance_components = << >>
      /\ Accounts[1].component_total = 0
      /\ Accounts[1].balance_diff = 12500 * Scale


\* ------------------------------------------------------------ C21

\* No tier of 1..3 returns for the account node n.
NoTierReturns(n) == \A t \in 1..3 : ~TierReturns(TierSum(root, n, t))

\* The number a text parses to, commas removed (None: it does not parse).
TextValue(text) == PyFloat(RemoveChar(text, ","))

\* The value of the k-th generic field read as a direct child of n: that of
\* the first child carrying the tag.
ChildValue(n, k) ==
    LET cs == { j \in 1..Len(root) :
                  root[j].parent = n /\ root[j].tag = GENERIC_FIELDS[k] }
    IN  IF cs = {} THEN None
        ELSE TextValue(root[CHOOSE j \in cs : \A m \in cs : j <= m].text)

PositiveFields(n) ==
    { k \in 1..Len(GENERIC_FIELDS) :
        ChildValue(n, k) # None /\ ChildValue(n, k)[1] > 0 }

\* The nodes of the subtree of n whose text parses to a positive number.
PositiveNodes(n) ==
    { j \in 1..Len(root) :
        /\ j = n \/ IsAncestor(root, n, j)
        /\ TextValue(root[j].text) # None /\ TextValue(root[j].text)[1] > 0 }

\* The weight of a node: 2 for a tag containing SCHUM, YITRAT or ERECH.
Weight(j) ==
    IF root[j].tag \in { "SCHUM-CHISACHON", "YITRAT-SOF-SHANA" } THEN 2 ELSE 1

C22_NeverNegative ==
    Done =>
      \A i \in AccountIndexes :
        LET a == Accounts[i]
        IN  /\ a.balance >= 0
            /\ a.balance_tier \in 1..3
                 => a.balance > BALANCE_TOLERANCE \/ a.balance = 0
            /\ a.balance_tier \in 4..5 => a.balance > 0
            /\ a.balance_tier = 6 => a.balance = 0

\* An account whose tier-1 total is negative beyond the tolerance and one of
\* whose generic fields is a negative direct child, with no positive number
\* in its subtree: the final return gives 0.
C22_Witness ==
    /\ Done
    /\ \E i \in AccountIndexes :
         LET n == Accounts[i].node
         IN  /\ TierSum(root, n, 1).count > 0
             /\ TierSum(root, n, 1).total < 0 - BALANCE_TOLERANCE
             /\ \E k \in 1..Len(GENERIC_FIELDS) :
                  ChildValue(n, k) # None /\ ChildValue(n, k)[1] < 0
             /\ PositiveNodes(n) = {}
             /\ Accounts[i].balance_tier = 6
             /\ Accounts[i].balance = 0


\* ------------------------------------------------------------ C23

SiblingTags == { "SHEM-TOCHNIT", "SHEM-MAASIK" }

\* The nodes below the document root that carry the tag with a text that is
\* not blank, and those of them inside the subtree of n.
Carriers(tag) ==
    { j \in 2..Len(root) : root[j].tag = tag /\ Strip(root[j].text) # << >> }

OwnCarriers(n, tag) == { j \in Carriers(tag) : IsAncestor(root, n, j) }

TextsOf(js) == { Strip(root[j].text) : j \in js }

Elements(seq) == { seq[k] : k \in 1..Len(seq) }

\* The document with the text of node m removed.
Blank(m) == [ root EXCEPT ![m].text = << >> ]

\* C23: with ancestor inclusion, _collect_tag_values started at an account
\* node returns exactly the values the tag carries anywhere below the
\* document root, those of the account's own subtree first; so any two
\* accounts of a document have the same set of employer names, an employer
\* name that only one node carries is listed for every account and removing
\* it changes every account's list, and removing the only plan name of the
\* document changes the product type of every account.
C23_SiblingDependence ==
    Done =>
      \A i \in AccountIndexes :
        LET n == Accounts[i].node
        IN  /\ \A tag \in SiblingTags :
                 LET out == _collect_tag_values(root, n, tag, TRUE)
                     own == TextsOf(OwnCarriers(n, tag))
                 IN  /\ Elements(out) = TextsOf(Carriers(tag))
                     /\ \A a, b \in 1..Len(out) :
                          out[a] \in own /\ out[b] \notin own => a < b
            /\ \A j \in AccountIndexes :
                 Elements(Accounts[i].employer_names) = Elements(Accounts[j].employer_names)
            /\ \A m \in Carriers("SHEM-MAASIK") :
                 (\A k \in Carriers("SHEM-MAASIK") \ { m } :
                     CleanName(root[k].text) # CleanName(root[m].text))
                 => /\ CleanName(root[m].text) \in Elements(Accounts[i].employer_names)
                    /\ _collect_employer_names(Blank(m), n) # Accounts[i].employer_names
            /\ \A m \in Carriers("SHEM-TOCHNIT") :
                 Carriers("SHEM-TOCHNIT") = { m }
                 => _get_product_type(Blank(m), n) # Accounts[i].product_type

\* Two accounts of which the first carries neither a plan name nor an
\* employer name and the second carries both: the first account's record
\* lists the second's employer and has the pension-fund label of the
\* second's plan name, and loses both when they are removed from the second.
C23_Witness ==
    /\ Done
    /\ \E i, j \in AccountIndexes :
         LET n == Accounts[i].node
             s == Accounts[j].node
         IN  /\ i # j /\ ~IsAncestor(root, n, s)
             /\ \A tag \in SiblingTags : OwnCarriers(n, tag) = {}
             /\ \E m \in OwnCarriers(s, "SHEM-MAASIK") :
                  /\ Accounts[i].employer_names = << << "x" >> >>
                  /\ _collect_employer_names(Blank(m), n) = << >>
             /\ \E m \in OwnCarriers(s, "SHEM-TOCHNIT") :
                  /\ Accounts[i].product_type = [ label |-> KEREN_PENSIA, raw |-> << >> ]
                  /\ _get_product_type(Blank(m), n) = [ label |-> "", raw |-> << >> ]


\* ------------------------------------------------------------ C24

\* The nodes of the subtree of n that carry the tag with a text that is not
\* blank, and those of them that no earlier such node matches in text.
TagNodes(n, tag) ==
    { j \in 1..Len(root) :
        /\ j = n \/ IsAncestor(root, n, j)
        /\ root[j].tag = tag
        /\ Strip(root[j].text) # << >> }

CountedNodes(n, tag) ==
    { j \in TagNodes(n, tag) :
        \A k \in TagNodes(n, tag) :
          k < j => Strip(root[k].text) # Strip(root[j].text) }

RECURSIVE NodesSum(_)
NodesSum(js) ==
    IF js = {} THEN 0
    ELSE LET j == CHOOSE x \in js : TRUE
             t == Strip(root[j].text)
         IN  SegmentSum(t, Segments(t)) + NodesSum(js \ { j })

CountedSum(n, c) ==
    LET tags == SEVERANCE_COLUMN_TAGS[c]
    IN  NodesSum(CountedNodes(n, tags[1]))
        + (IF Len(tags) = 2 THEN NodesSum(CountedNodes(n, tags[2])) ELSE 0)

RECURSIVE CountedTotal(_, _)
CountedTotal(n, c) ==
    IF c = 0 THEN 0 ELSE CountedSum(n, c) + CountedTotal(n, c - 1)

Component(a, c) ==
    IF SEVERANCE_COLUMNS[c] \in DOMAIN a.severance_components
    THEN a.severance_components[SEVERANCE_COLUMNS[c]] ELSE 0

\* C24: a severance category of an account holds what the nodes of its
\* source tags contribute when a node repeating the text of an earlier node
\* of the same tag contributes nothing: each distinct text of a tag counts
\* once. The severance total is the sum of the categories so computed, the
\* component total adds it to the contribution total, and the discrepancy is
\* the balance less that component total, zero within the tolerance.
C24_CountedOnce ==
    Done =>
      \A i \in AccountIndexes :
        LET a == Accounts[i]
            cols == Len(SEVERANCE_COLUMNS)
        IN  /\ \A c \in 1..cols : Component(a, c) = CountedSum(a.node, c)
            /\ a.severance_total = CountedTotal(a.node, cols)
            /\ a.component_total = a.tagmul_total + CountedTotal(a.node, cols)
            /\ a.balance_diff
                 = (IF Abs(a.balance - a.component_total) <= BALANCE_TOLERANCE
                    THEN 0 ELSE a.balance - a.component_total)

\* An account with two nodes of one severance tag that both read 250 and no
\* other severance field: the category holds 250, the component total is
\* 250 and, the balance being 250, the discrepancy is 0.
C24_Witness ==
    /\ Done
    /\ \E i \in AccountIndexes :
         LET a == Accounts[i]
             tag == SEVERANCE_COLUMN_TAGS[5][1]
         IN  /\ Cardinality(TagNodes(a.node, tag)) = 2
             /\ \A j \in TagNodes(a.node, tag) : root[j].text = << "2", "5", "0" >>
             /\ a.severance_components = (SEVERANCE_COLUMNS[5] :> 250 * Scale)
             /\ a.component_total = 250 * Scale
             /\ a.balance = 250 * Scale
             /\ a.balance_diff = 0

=============================================================================
